---- MODULE Spec2Model ----
(***************************************************************************)
(* A model of system68k: the MC68000 decoder table, the execution engine   *)
(* (Cpu), the system bus (ROM below 0x010000, RAM above), the register and *)
(* breakpoint handlers of the GDB target and the stop loop of the event    *)
(* loop (wait_for_stop_reason).                                            *)
(*                                                                         *)
(* Number representation.  TLC integers are 32-bit signed, so a u32 of the *)
(* program is the pair <<hi, lo>> of its 16-bit halves; u8 and u16 values  *)
(* are plain integers.  An operand of any size travels through the ALU     *)
(* zero-extended to such a pair, as the casts of the source do.            *)
(***************************************************************************)
EXTENDS Integers, Sequences, FiniteSets, TLC

VARIABLES
    data,        \* Cpu.data: [0..7 -> u32]
    addr,        \* Cpu.addr: [0..6 -> u32]
    pc,          \* Cpu.pc
    usp,         \* Cpu.usp
    ssp,         \* Cpu.ssp
    sr,          \* Cpu.sr (u16)
    is_stopped,  \* Cpu.is_stopped
    rom,         \* System.rom: the loaded image, a sequence of bytes
    ram,         \* System.ram: the bytes written so far (all others are 0)
    regs,        \* the MC68kCoreRegs buffer filled by read_registers
    status,      \* "running", or "panicked" once an unwrap/todo!/index aborted the process
    steps,       \* number of System::step calls made so far
    last,        \* the operation that produced this state, with its inputs and pre-state
    breakpoints, \* SystemTarget.breakpoints: HashSet<u32>
    tick,        \* wait_for_stop_reason: the local `tick`
    conn,        \* the connection: "empty", "byte" (one pending) or "broken" (peek fails)
    event,       \* what wait_for_stop_reason returned, "none" while it has not
    at,          \* "idle" outside wait_for_stop_reason, else its position: "poll", "step"
    obs,         \* counts kept for the properties: peeks and steps of this invocation
    packet,      \* the bytes of the last register or memory packet: gdb_serialize's
                 \* output, or the data buffer of read_addrs / write_addrs
    opcode,      \* init_table: the opcode whose table entry is being built
    entry        \* init_table: table[opcode], or NoEntry while not built

\* the debugger session around the system
gdb == <<breakpoints, tick, conn, event, at, obs>>

vars == <<data, addr, pc, usp, ssp, sr, is_stopped, rom, ram, regs, status,
          steps, last, opcode, entry, gdb, packet>>

\* A `let` of the source: value is computed once, and rest uses it
Bind(value, rest(_)) == rest(value)

-----------------------------------------------------------------------------
(* Fixed-width arithmetic *)

W8 == 2^8
W16 == 2^16

RECURSIVE And16(_, _)
And16(a, b) ==
    IF a = 0 \/ b = 0 THEN 0
    ELSE (IF a % 2 = 1 /\ b % 2 = 1 THEN 1 ELSE 0) + 2 * And16(a \div 2, b \div 2)

RECURSIVE Or16(_, _)
Or16(a, b) ==
    IF a = 0 THEN b
    ELSE IF b = 0 THEN a
    ELSE (IF a % 2 = 1 \/ b % 2 = 1 THEN 1 ELSE 0) + 2 * Or16(a \div 2, b \div 2)

RECURSIVE Xor16(_, _)
Xor16(a, b) ==
    IF a = 0 THEN b
    ELSE IF b = 0 THEN a
    ELSE (IF (a % 2) # (b % 2) THEN 1 ELSE 0) + 2 * Xor16(a \div 2, b \div 2)

Not16(a) == (W16 - 1) - a

\* u32 values as <<hi, lo>>
Zero32 == <<0, 0>>
And32(a, b) == <<And16(a[1], b[1]), And16(a[2], b[2])>>
Or32(a, b) == <<Or16(a[1], b[1]), Or16(a[2], b[2])>>
Xor32(a, b) == <<Xor16(a[1], b[1]), Xor16(a[2], b[2])>>
Not32(a) == <<Not16(a[1]), Not16(a[2])>>

\* u32::wrapping_add / wrapping_sub
wrapping_add(a, b) ==
    LET l == a[2] + b[2]
        h == a[1] + b[1] + (l \div W16)
    IN  <<h % W16, l % W16>>

wrapping_sub(a, b) ==
    LET l == a[2] - b[2]
        bl == IF l < 0 THEN 1 ELSE 0
        h == a[1] - b[1] - bl
    IN  <<(h + W16) % W16, (l + W16) % W16>>

\* Operand sizes in bytes
Bytes(size) == CASE size = "Byte" -> 1 [] size = "Word" -> 2 [] size = "Long" -> 4

\* `as u8` / `as u16` / identity on a zero-extended operand
Trunc(size, v) ==
    CASE size = "Byte" -> <<0, v[2] % W8>>
      [] size = "Word" -> <<0, v[2]>>
      [] size = "Long" -> v

\* (result & 0x80) != 0, (result & 0x8000) != 0, (result & 0x80000000) != 0
Msb(size, v) ==
    CASE size = "Byte" -> (v[2] % W8) >= 128
      [] size = "Word" -> v[2] >= 32768
      [] size = "Long" -> v[1] >= 32768

\* carrying_add with the carry of a byte sum taken out of bit 15
carrying_add_wide_carry(size, lhs, rhs, cin) ==
    LET c == IF cin THEN 1 ELSE 0
        l == lhs[2] + rhs[2] + c
        h == lhs[1] + rhs[1] + (l \div W16)
    IN  CASE size = "Byte" -> [result |-> <<0, l % W8>>, carry |-> l >= W16]
          [] size = "Word" -> [result |-> <<0, l % W16>>, carry |-> l >= W16]
          [] size = "Long" -> [result |-> <<h % W16, l % W16>>, carry |-> h >= W16]

\* uN::carrying_add(lhs, rhs, carry) at the operand width: [result, carry]
carrying_add(size, lhs, rhs, cin) ==
    LET c == IF cin THEN 1 ELSE 0
        l == lhs[2] + rhs[2] + c
        h == lhs[1] + rhs[1] + (l \div W16)
    IN  CASE size = "Byte" -> [result |-> <<0, l % W8>>, carry |-> l >= W8]
          [] size = "Word" -> [result |-> <<0, l % W16>>, carry |-> l >= W16]
          [] size = "Long" -> [result |-> <<h % W16, l % W16>>, carry |-> h >= W16]

\* uN::borrowing_sub(lhs, rhs, borrow) at the operand width: [result, borrow]
borrowing_sub(size, lhs, rhs, bin) ==
    LET b == IF bin THEN 1 ELSE 0
        l == lhs[2] - rhs[2] - b
        bl == IF l < 0 THEN 1 ELSE 0
        h == lhs[1] - rhs[1] - bl
    IN  CASE size = "Byte" -> [result |-> <<0, (l + W16) % W8>>, borrow |-> l < 0]
          [] size = "Word" -> [result |-> <<0, (l + W16) % W16>>, borrow |-> l < 0]
          [] size = "Long" -> [result |-> <<(h + W16) % W16, (l + W16) % W16>>,
                               borrow |-> h < 0]

\* uN::checked_add(lhs, rhs).is_none(): the unsigned sum does not fit
checked_add_is_none(size, lhs, rhs) == carrying_add(size, lhs, rhs, FALSE).carry

\* uN::checked_sub(lhs, rhs).is_none(): lhs < rhs as unsigned numbers
checked_sub_is_none(size, lhs, rhs) == borrowing_sub(size, lhs, rhs, FALSE).borrow

-----------------------------------------------------------------------------
(* Decoder (cpu/decoder.rs) *)

\* EffectiveAddress; None stands for Option::None
EA(mode, reg) == [mode |-> mode, reg |-> reg]
None == [mode |-> "None", reg |-> 0]

\* Instruction: one record shape for every variant; unused fields are None / 0
Instr(op, size, ea, dst, reg, aux) ==
    [op |-> op, size |-> size, ea |-> ea, dst |-> dst, reg |-> reg, aux |-> aux]
Illegal == Instr("Illegal", "None", None, None, 0, 0)

\* ((opcode & mask) >> lo): bits lo..hi of the opcode
Bits(op, lo, hi) == (op \div (2^lo)) % (2^(hi - lo + 1))

ea_type0(mode, register) ==
    CASE mode = 0 -> EA("DataRegister", register)
      [] mode = 1 -> None
      [] mode = 2 -> EA("Address", register)
      [] mode = 3 -> EA("AddressWithPostIncrement", register)
      [] mode = 4 -> EA("AddressWithPreDecrement", register)
      [] mode = 5 -> EA("AddressWithDisplacement", register)
      [] mode = 6 -> EA("AddressWithIndex", register)
      [] mode = 7 -> CASE register = 0 -> EA("AbsoluteShort", 0)
                       [] register = 1 -> EA("AbsoluteLong", 0)
                       [] OTHER -> None

ea_type1(mode, register) ==
    CASE mode = 0 -> EA("DataRegister", register)
      [] mode = 1 -> None
      [] mode = 2 -> EA("Address", register)
      [] mode = 3 -> EA("AddressWithPostIncrement", register)
      [] mode = 4 -> EA("AddressWithPreDecrement", register)
      [] mode = 5 -> EA("AddressWithDisplacement", register)
      [] mode = 6 -> EA("AddressWithIndex", register)
      [] mode = 7 -> CASE register = 0 -> EA("AbsoluteShort", 0)
                       [] register = 1 -> EA("AbsoluteLong", 0)
                       [] register = 2 -> EA("PcWithDisplacement", 0)
                       [] register = 3 -> EA("PcWithIndex", 0)
                       [] register = 4 -> EA("Immediate", 0)
                       [] OTHER -> None

ea_type2(mode, register) ==
    CASE mode = 0 -> EA("DataRegister", register)
      [] mode = 1 -> None
      [] mode = 2 -> EA("Address", register)
      [] mode = 3 -> EA("AddressWithPostIncrement", register)
      [] mode = 4 -> EA("AddressWithPreDecrement", register)
      [] mode = 5 -> EA("AddressWithDisplacement", register)
      [] mode = 6 -> EA("AddressWithIndex", register)
      [] mode = 7 -> CASE register = 0 -> EA("AbsoluteShort", 0)
                       [] register = 1 -> EA("AbsoluteLong", 0)
                       [] register = 2 -> EA("PcWithDisplacement", 0)
                       [] register = 3 -> EA("PcWithIndex", 0)
                       [] OTHER -> None

ea_type3(mode, register) ==
    CASE mode = 0 -> EA("DataRegister", register)
      [] mode = 1 -> EA("AddressRegister", register)
      [] mode = 2 -> EA("Address", register)
      [] mode = 3 -> EA("AddressWithPostIncrement", register)
      [] mode = 4 -> EA("AddressWithPreDecrement", register)
      [] mode = 5 -> EA("AddressWithDisplacement", register)
      [] mode = 6 -> EA("AddressWithIndex", register)
      [] mode = 7 -> CASE register = 0 -> EA("AbsoluteShort", 0)
                       [] register = 1 -> EA("AbsoluteLong", 0)
                       [] register = 2 -> EA("PcWithDisplacement", 0)
                       [] register = 3 -> EA("PcWithIndex", 0)
                       [] register = 4 -> EA("Immediate", 0)
                       [] OTHER -> None

ea_type4(mode, register) ==
    CASE mode = 0 -> None
      [] mode = 1 -> None
      [] mode = 2 -> EA("Address", register)
      [] mode = 3 -> None
      [] mode = 4 -> None
      [] mode = 5 -> EA("AddressWithDisplacement", register)
      [] mode = 6 -> EA("AddressWithIndex", register)
      [] mode = 7 -> CASE register = 0 -> EA("AbsoluteShort", 0)
                       [] register = 1 -> EA("AbsoluteLong", 0)
                       [] register = 2 -> EA("PcWithDisplacement", 0)
                       [] register = 3 -> EA("PcWithIndex", 0)
                       [] OTHER -> None

\* match bits6_7 { 0 => Byte, 1 => Word, 2 => Long, _ => (none) }
SizeOf(bits6_7) ==
    CASE bits6_7 = 0 -> "Byte" [] bits6_7 = 1 -> "Word" [] bits6_7 = 2 -> "Long"
      [] OTHER -> "None"

\* decode_0, the part after the `if bits8 == 0 { ... }` block: the register
\* forms of the bit instructions, and MOVEP
decode_0_tail(op) ==
    LET bits0_2 == Bits(op, 0, 2)
        bits3_5 == Bits(op, 3, 5)
        bits6_7 == Bits(op, 6, 7)
        bits9_11 == Bits(op, 9, 11)
        e1 == ea_type1(bits3_5, bits0_2)
        e2 == ea_type2(bits3_5, bits0_2)
    IN  IF bits3_5 # 1
        THEN CASE bits6_7 = 0 /\ e1 # None -> Instr("Btst", "None", e1, None, bits9_11, 1)
               [] bits6_7 = 1 /\ e2 # None -> Instr("Bchg", "None", e2, None, bits9_11, 1)
               [] bits6_7 = 2 /\ e2 # None -> Instr("Bclr", "None", e2, None, bits9_11, 1)
               [] bits6_7 = 3 /\ e2 # None -> Instr("Bset", "None", e2, None, bits9_11, 1)
               [] OTHER -> Illegal
        ELSE Instr("Movep",
                   IF bits6_7 % 2 = 0 THEN "Word" ELSE "Long",
                   None, None, bits9_11,
                   \* aux: <<target, address register>>
                   <<IF bits6_7 \div 2 = 0 THEN "FromRegister" ELSE "ToRegister", bits0_2>>)

\* One immediate family of decode_0: the optional CCR/SR special case, then the
\* ea_type0 operand; an operand the table rejects leaves the match
decode_0_imm(op, name, hasSr) ==
    LET bits0_2 == Bits(op, 0, 2)
        bits3_5 == Bits(op, 3, 5)
        bits6_7 == Bits(op, 6, 7)
        ea == ea_type0(bits3_5, bits0_2)
    IN  IF hasSr /\ bits0_2 = 4 /\ bits3_5 = 7
        THEN CASE bits6_7 = 0 -> Instr(name \o "ToCcr", "None", None, None, 0, 0)
               [] bits6_7 = 1 -> Instr(name \o "ToSr", "None", None, None, 0, 0)
               [] OTHER -> Illegal
        ELSE IF ea # None
        THEN IF SizeOf(bits6_7) = "None" THEN Illegal
             ELSE Instr(name, SizeOf(bits6_7), ea, None, 0, 0)
        ELSE decode_0_tail(op)

decode_0(op) ==
    LET bits0_2 == Bits(op, 0, 2)
        bits3_5 == Bits(op, 3, 5)
        bits6_7 == Bits(op, 6, 7)
        bits8 == Bits(op, 8, 8)
        bits9_11 == Bits(op, 9, 11)
        e2 == ea_type2(bits3_5, bits0_2)
    IN  IF bits8 = 0
        THEN CASE bits9_11 = 0 -> decode_0_imm(op, "Ori", TRUE)
               [] bits9_11 = 1 -> decode_0_imm(op, "Andi", TRUE)
               [] bits9_11 = 2 -> decode_0_imm(op, "Subi", FALSE)
               [] bits9_11 = 3 -> decode_0_imm(op, "Addi", FALSE)
               [] bits9_11 = 5 -> decode_0_imm(op, "Eori", TRUE)
               [] bits9_11 = 6 -> decode_0_imm(op, "Cmpi", FALSE)
               [] bits9_11 = 4 ->
                    IF e2 # None
                    THEN CASE bits6_7 = 0 -> Instr("Btst", "None", e2, None, 0, 0)
                           [] bits6_7 = 1 -> Instr("Bchg", "None", e2, None, 0, 0)
                           [] bits6_7 = 2 -> Instr("Bclr", "None", e2, None, 0, 0)
                           [] bits6_7 = 3 -> Instr("Bset", "None", e2, None, 0, 0)
                    ELSE decode_0_tail(op)
               [] OTHER -> Illegal
        ELSE decode_0_tail(op)

\* decode_1 / decode_2 / decode_3: MOVE.B, MOVE.L + MOVEA.L, MOVE.W + MOVEA.W
decode_move(op, size) ==
    LET bits0_2 == Bits(op, 0, 2)
        bits3_5 == Bits(op, 3, 5)
        bits6_8 == Bits(op, 6, 8)
        bits9_11 == Bits(op, 9, 11)
        src == ea_type0(bits3_5, bits0_2)
        dst == ea_type1(bits6_8, bits9_11)
    IN  IF src # None /\ dst # None
        THEN Instr("Move", size, src, dst, 0, 0)
        ELSE Illegal

decode_movea(op, size) ==
    LET ea == ea_type3(Bits(op, 3, 5), Bits(op, 0, 2))
    IN  IF ea # None THEN Instr("Movea", size, ea, None, Bits(op, 9, 11), 0)
        ELSE Illegal

decode_1(op) ==
    IF Bits(op, 6, 8) = 1 THEN Illegal ELSE decode_move(op, "Byte")

decode_2(op) ==
    IF Bits(op, 6, 8) = 1 THEN decode_movea(op, "Long") ELSE decode_move(op, "Long")

decode_3(op) ==
    IF Bits(op, 6, 8) = 1 THEN decode_movea(op, "Word") ELSE decode_move(op, "Word")

\* decode_4, from `if bits8_11 == 0b1000` to the end of the function
decode_4_tail(op) ==
    LET bits0_2 == Bits(op, 0, 2)
        bits0_3 == Bits(op, 0, 3)
        bits3_5 == Bits(op, 3, 5)
        bits3_11 == Bits(op, 3, 11)
        bits4_11 == Bits(op, 4, 11)
        bit6 == Bits(op, 6, 6)
        bit7 == Bits(op, 7, 7)
        bits6_7 == Bits(op, 6, 7)
        bits6_8 == Bits(op, 6, 8)
        bits6_11 == Bits(op, 6, 11)
        bits8_11 == Bits(op, 8, 11)
        e0 == ea_type0(bits3_5, bits0_2)
        e4 == ea_type4(bits3_5, bits0_2)
        \* match bits6_7 { 0b00 => Byte, 0b01 => Byte, 0b10 => Byte, _ => None }
        tstSize == IF bits6_7 \in {0, 1, 2} THEN "Byte" ELSE "None"
    IN  CASE bits8_11 = 8 /\ bit7 = 1 /\ bits3_5 = 0 ->
                Instr("Ext", IF bit6 = 0 THEN "Word" ELSE "Long", None, None, bits0_2, 0)
          [] bits8_11 = 8 /\ bits6_7 = 0 /\ e0 # None ->
                Instr("Nbcd", "None", e0, None, 0, 0)
          [] bits8_11 = 8 /\ bits6_8 = 1 /\ bits3_5 = 0 ->
                Instr("Swap", "None", None, None, bits0_2, 0)
          [] bits8_11 = 8 /\ bits6_8 = 1 /\ bits3_5 # 0 /\ e4 # None ->
                Instr("Pea", "None", e4, None, 0, 0)
          [] OTHER ->
                IF op = 19196    \* 0b0100101011111100, the official ILLEGAL
                THEN Illegal
                ELSE IF bits6_11 = 43 /\ e0 # None
                THEN Instr("Tas", "None", e0, None, 0, 0)
                ELSE IF bits8_11 = 10 /\ e0 # None /\ tstSize # "None"
                THEN Instr("Tst", tstSize, e0, None, 0, 0)
                ELSE IF bits4_11 = 228
                THEN Instr("Trap", "None", None, None, 0, bits0_3)
                ELSE IF bits3_11 = 458
                THEN Instr("Link", "None", None, None, bits0_2, 0)
                ELSE IF bits3_11 = 459
                THEN Instr("Unlk", "None", None, None, bits0_2, 0)
                ELSE Illegal

decode_4(op) ==
    LET bits0_2 == Bits(op, 0, 2)
        bits3_5 == Bits(op, 3, 5)
        bits6_7 == Bits(op, 6, 7)
        bits8_11 == Bits(op, 8, 11)
        bit11 == Bits(op, 11, 11)
        e0 == ea_type0(bits3_5, bits0_2)
        e1 == ea_type1(bits3_5, bits0_2)
        size == SizeOf(bits6_7)
    IN  CASE bit11 = 0 /\ bits6_7 = 3 /\ bits8_11 = 0 /\ e0 # None ->
                Instr("MoveFromSr", "None", e0, None, 0, 0)
          [] bit11 = 0 /\ bits6_7 = 3 /\ bits8_11 = 4 /\ e1 # None ->
                Instr("MoveToCcr", "None", e1, None, 0, 0)
          [] bit11 = 0 /\ bits6_7 = 3 /\ bits8_11 = 6 /\ e1 # None ->
                Instr("MoveToSr", "None", e1, None, 0, 0)
          [] bit11 = 0 /\ e0 # None /\ size # "None" /\ bits8_11 = 0 ->
                Instr("Negx", size, e0, None, 0, 0)
          [] bit11 = 0 /\ e0 # None /\ size # "None" /\ bits8_11 = 2 ->
                Instr("Clr", size, e0, None, 0, 0)
          [] bit11 = 0 /\ e0 # None /\ size # "None" /\ bits8_11 = 4 ->
                Instr("Neg", size, e0, None, 0, 0)
          [] bit11 = 0 /\ e0 # None /\ size # "None" /\ bits8_11 = 6 ->
                Instr("Not", size, e0, None, 0, 0)
          [] OTHER -> decode_4_tail(op)

decode_5(op) == Illegal
decode_6(op) == Illegal

decode_7(op) ==
    IF Bits(op, 8, 8) = 1 THEN Illegal
    ELSE Instr("Moveq", "None", None, None, Bits(op, 9, 11), op % 256)

decode_8(op) == Illegal
decode_9(op) == Illegal
decode_a(op) == Illegal
decode_b(op) == Illegal
decode_c(op) == Illegal
decode_d(op) == Illegal
decode_e(op) == Illegal
decode_f(op) == Illegal

\* init_table's match on (opcode & 0xF000) >> 12; Decoder::decode reads the
\* table entry this computed
decode(op) ==
    LET n == Bits(op, 12, 15)
    IN  CASE n = 0 -> decode_0(op)
          [] n = 1 -> decode_1(op)
          [] n = 2 -> decode_2(op)
          [] n = 3 -> decode_3(op)
          [] n = 4 -> decode_4(op)
          [] n = 5 -> decode_5(op)
          [] n = 6 -> decode_6(op)
          [] n = 7 -> decode_7(op)
          [] n = 8 -> decode_8(op)
          [] n = 9 -> decode_9(op)
          [] n = 10 -> decode_a(op)
          [] n = 11 -> decode_b(op)
          [] n = 12 -> decode_c(op)
          [] n = 13 -> decode_d(op)
          [] n = 14 -> decode_e(op)
          [] n = 15 -> decode_f(op)

-----------------------------------------------------------------------------
(* System bus as the CPU sees it (sys/mod.rs, impl Bus for CpuView) *)

\* A bus or CPU operation yields [err, v]; err is "none", an Exception of
\* cpu/mod.rs, or "Panic" when the process aborts (index out of bounds,
\* unwrap of an Err, todo!(), unreachable!()).
RamEnd == 2^24       \* 0x01000000, also ram.len()

\* usize value of an address that is below 2^31
Index(a) == a[1] * W16 + a[2]

\* self.ram[i] for i < ram.len(): bytes never written are the initial 0
RamByte(ramf, i) == IF i \in DOMAIN ramf THEN ramf[i] ELSE 0

\* read8 / read16 / read32 as one operator on the byte count n: the bytes at
\* addr .. addr+n-1, most significant first
BusRead(ramf, a, n) ==
    IF a[1] = 0                                         \* addr < 0x00010000
    THEN IF Index(a) + n - 1 >= Len(rom)                \* self.rom[addr + k]
         THEN [err |-> "Panic", v |-> <<>>]
         ELSE [err |-> "none", v |-> [k \in 1..n |-> rom[Index(a) + k]]]
    ELSE IF a[1] < 256                                  \* addr < 0x01000000
    THEN IF Index(a) + n - 1 >= RamEnd                  \* self.ram[addr + k]
         THEN [err |-> "Panic", v |-> <<>>]
         ELSE [err |-> "none", v |-> [k \in 1..n |-> RamByte(ramf, Index(a) + k - 1)]]
    ELSE [err |-> "BusError", v |-> <<>>]

\* read8, and read16 / read32 with u16::from_be_bytes / u32::from_be_bytes
read8(ramf, a) ==
    Bind(BusRead(ramf, a, 1),
         LAMBDA r : [err |-> r.err, v |-> IF r.err = "none" THEN <<0, r.v[1]>> ELSE Zero32])

read16(ramf, a) ==
    Bind(BusRead(ramf, a, 2),
         LAMBDA r : [err |-> r.err,
                     v |-> IF r.err = "none" THEN <<0, r.v[1] * W8 + r.v[2]>> ELSE Zero32])

read32(ramf, a) ==
    Bind(BusRead(ramf, a, 4),
         LAMBDA r : [err |-> r.err,
                     v |-> IF r.err = "none"
                           THEN <<r.v[1] * W8 + r.v[2], r.v[3] * W8 + r.v[4]>>
                           ELSE Zero32])

\* value.to_be_bytes() of a zero-extended operand of n bytes (to_le_bytes
\* would store the least significant byte first)
BeBytes_little_endian(v, n) ==
    CASE n = 1 -> <<v[2] % W8>>
      [] n = 2 -> <<v[2] % W8, v[2] \div W8>>
      [] n = 4 -> <<v[2] % W8, v[2] \div W8, v[1] % W8, v[1] \div W8>>

BeBytes(v, n) ==
    CASE n = 1 -> <<v[2] % W8>>
      [] n = 2 -> <<v[2] \div W8, v[2] % W8>>
      [] n = 4 -> <<v[1] \div W8, v[1] % W8, v[2] \div W8, v[2] % W8>>

\* write8 / write16 / write32: [err, ram]; the bytes are stored one by one,
\* so the bytes below ram.len() are stored before the index panic (without
\* the first test a write below 0x00010000 would be stored in self.ram)
BusWrite_rom_writable(ramf, a, v, n) ==
    IF a[1] < 256
    THEN [err |-> "none",
          ram |-> [i \in DOMAIN ramf \cup {Index(a) + k - 1 : k \in 1..n} |->
                      IF i >= Index(a) /\ i < Index(a) + n
                      THEN BeBytes(v, n)[i - Index(a) + 1] ELSE ramf[i]]]
    ELSE [err |-> "BusError", ram |-> ramf]

BusWrite(ramf, a, v, n) ==
    IF a[1] = 0                                         \* addr < 0x00010000
    THEN [err |-> "BusError", ram |-> ramf]
    ELSE IF a[1] < 256                                  \* addr < 0x01000000
    THEN LET bytes == BeBytes(v, n)
             inside == {k \in 1..n : Index(a) + k - 1 < RamEnd}
             new == [i \in DOMAIN ramf \cup {Index(a) + k - 1 : k \in inside} |->
                        IF i >= Index(a) /\ i < Index(a) + n
                        THEN bytes[i - Index(a) + 1] ELSE ramf[i]]
         IN  [err |-> IF inside = 1..n THEN "none" ELSE "Panic", ram |-> new]
    ELSE [err |-> "BusError", ram |-> ramf]

-----------------------------------------------------------------------------
(* Cpu (cpu/mod.rs) *)

\* enum StatusFlag
Carry == 1
Overflow == 2
Zero == 4
Negative == 8
Extend == 16
Supervisor == 8192

\* The mask of Cpu::set_sr: 0xF71f
SrMask == 63263

\* A CPU operation works on c = [data, addr, pc, usp, ssp, sr, ram, err] and
\* yields [c, v].  Once c.err is set (a `?` returned early, or a panic) every
\* later operation of the instruction leaves c alone.
Ret(c, v) == [c |-> c, v |-> v]
Fail(c, e) == [c EXCEPT !.err = e]
Ok(c) == c.err = "none"

\* Cpu::flag
flag(srv, f) == And16(srv, f) # 0

\* Cpu::set_sr
set_sr(c, value) ==
    IF ~Ok(c) THEN c ELSE [c EXCEPT !.sr = And16(value, SrMask)]

\* Cpu::set_flag
set_flag(c, f, value) ==
    IF ~Ok(c) THEN c
    ELSE IF value THEN set_sr(c, Or16(c.sr, f))
    ELSE set_sr(c, And16(c.sr, Not16(f)))

\* Cpu::assert_supervisor
assert_supervisor(c) ==
    IF ~Ok(c) THEN c
    ELSE IF ~flag(c.sr, Supervisor) THEN Fail(c, "PrivilegeViolation")
    ELSE c

\* Cpu::addr without the user stack pointer
addr_get_ssp_only(c, register) ==
    IF register = 7 THEN c.ssp ELSE c.addr[register]

\* Cpu::addr
addr_get(c, register) ==
    IF register = 7
    THEN IF flag(c.sr, Supervisor) THEN c.ssp ELSE c.usp
    ELSE c.addr[register]

\* Cpu::set_addr
set_addr(c, register, value) ==
    IF register = 7
    THEN IF flag(c.sr, Supervisor) THEN [c EXCEPT !.ssp = value]
         ELSE [c EXCEPT !.usp = value]
    ELSE [c EXCEPT !.addr[register] = value]

\* Cpu::read_byte / read_word / read_long, by operand size
read_mem(c, size, a) ==
    IF ~Ok(c) THEN Ret(c, Zero32)
    ELSE Bind(CASE size = "Byte" -> read8(c.ram, a)
                [] size = "Word" -> read16(c.ram, a)
                [] size = "Long" -> read32(c.ram, a),
              LAMBDA r : IF r.err = "none" THEN Ret(c, r.v)
                         ELSE Ret(Fail(c, r.err), Zero32))

\* Cpu::write_byte / write_word / write_long, by operand size
write_mem(c, size, a, value) ==
    IF ~Ok(c) THEN c
    ELSE Bind(BusWrite(c.ram, a, value, Bytes(size)),
              LAMBDA r : [c EXCEPT !.ram = r.ram, !.err = r.err])

\* Cpu::fetch_word
fetch_word(c) ==
    Bind(read_mem(c, "Word", c.pc),
         LAMBDA r : IF ~Ok(r.c) THEN r
                    ELSE Ret([c EXCEPT !.pc = wrapping_add(c.pc, <<0, 2>>)], r.v))

\* Cpu::fetch_long: the PC advances by 4 (by 2 it would stop on the low word)
fetch_long_advances_2(c) ==
    Bind(read_mem(c, "Long", c.pc),
         LAMBDA r : IF ~Ok(r.c) THEN r
                    ELSE Ret([c EXCEPT !.pc = wrapping_add(c.pc, <<0, 2>>)], r.v))

fetch_long(c) ==
    Bind(read_mem(c, "Long", c.pc),
         LAMBDA r : IF ~Ok(r.c) THEN r
                    ELSE Ret([c EXCEPT !.pc = wrapping_add(c.pc, <<0, 4>>)], r.v))

\* The immediate operand of an instruction: `fetch_word()? as u8`,
\* `fetch_word()?`, `fetch_long()?`
fetch_imm(c, size) ==
    CASE size = "Byte" -> Bind(fetch_word(c), LAMBDA r : Ret(r.c, Trunc("Byte", r.v)))
      [] size = "Word" -> fetch_word(c)
      [] size = "Long" -> fetch_long(c)

\* ComputedEffectiveAddress
CEA(kind, reg, a) == [kind |-> kind, reg |-> reg, addr |-> a]
NoCEA == CEA("None", 0, Zero32)

\* (self.fetch_word()? as i16) as i32 as u32
SignExtend16(w) == <<IF w[2] >= 32768 THEN W16 - 1 ELSE 0, w[2]>>

\* `if increment == 1 { 2 } else { increment }`, the step of the stack pointer
SpStep(increment) == IF increment = 1 THEN 2 ELSE increment

\* Cpu::compute_ea
compute_ea(c, ea, increment) ==
    IF ~Ok(c) THEN Ret(c, NoCEA)
    ELSE
    CASE ea.mode = "DataRegister" -> Ret(c, CEA("DataRegister", ea.reg, Zero32))
      [] ea.mode = "AddressRegister" -> Ret(c, CEA("AddressRegister", ea.reg, Zero32))
      [] ea.mode = "Address" -> Ret(c, CEA("Address", 0, addr_get(c, ea.reg)))
      [] ea.mode = "AddressWithPostIncrement" ->
            IF ea.reg = 7
            THEN IF flag(c.sr, Supervisor)
                 THEN Ret([c EXCEPT !.ssp = wrapping_add(c.ssp, <<0, SpStep(increment)>>)],
                          CEA("Address", 0, c.ssp))
                 ELSE Ret([c EXCEPT !.usp = wrapping_add(c.usp, <<0, SpStep(increment)>>)],
                          CEA("Address", 0, c.usp))
            ELSE Ret([c EXCEPT !.addr[ea.reg] = wrapping_add(c.addr[ea.reg], <<0, increment>>)],
                     CEA("Address", 0, c.addr[ea.reg]))
      [] ea.mode = "AddressWithPreDecrement" ->
            IF ea.reg = 7
            THEN IF flag(c.sr, Supervisor)
                 THEN Bind(wrapping_sub(c.ssp, <<0, SpStep(increment)>>),
                           LAMBDA n : Ret([c EXCEPT !.ssp = n], CEA("Address", 0, n)))
                 ELSE Bind(wrapping_sub(c.usp, <<0, SpStep(increment)>>),
                           LAMBDA n : Ret([c EXCEPT !.usp = n], CEA("Address", 0, n)))
            ELSE Bind(wrapping_sub(c.addr[ea.reg], <<0, increment>>),
                      LAMBDA n : Ret([c EXCEPT !.addr[ea.reg] = n], CEA("Address", 0, n)))
      [] ea.mode = "AddressWithDisplacement" ->
            Bind(fetch_word(c),
                 LAMBDA r : IF ~Ok(r.c) THEN Ret(r.c, NoCEA)
                            ELSE IF ea.reg = 7       \* self.addr[7]: index out of bounds
                            THEN Ret(Fail(r.c, "Panic"), NoCEA)
                            ELSE Ret(r.c, CEA("Address", 0,
                                     wrapping_add(r.c.addr[ea.reg], SignExtend16(r.v)))))
      [] ea.mode = "AddressWithIndex" -> Ret(Fail(c, "Panic"), NoCEA)     \* todo!()
      [] ea.mode = "PcWithDisplacement" ->
            Bind(fetch_word(c),
                 LAMBDA r : IF ~Ok(r.c) THEN Ret(r.c, NoCEA)
                            ELSE Ret(r.c, CEA("Address", 0,
                                     wrapping_add(c.pc, SignExtend16(r.v)))))
      [] ea.mode = "PcWithIndex" -> Ret(Fail(c, "Panic"), NoCEA)          \* todo!()
      [] ea.mode = "AbsoluteShort" ->
            Bind(fetch_word(c),                     \* self.fetch_word(bus)? as u32
                 LAMBDA r : IF ~Ok(r.c) THEN Ret(r.c, NoCEA)
                            ELSE Ret(r.c, CEA("Address", 0, <<0, r.v[2]>>)))
      [] ea.mode = "AbsoluteLong" ->
            Bind(fetch_long(c),
                 LAMBDA r : IF ~Ok(r.c) THEN Ret(r.c, NoCEA)
                            ELSE Ret(r.c, CEA("Address", 0, r.v)))
      [] ea.mode = "Immediate" -> Ret(c, CEA("Immediate", 0, Zero32))

\* Cpu::read_ea_byte / read_ea_word / read_ea_long, by operand size
read_ea(c, size, cea) ==
    IF ~Ok(c) THEN Ret(c, Zero32)
    ELSE
    CASE cea.kind = "DataRegister" -> Ret(c, Trunc(size, c.data[cea.reg]))
      [] cea.kind = "AddressRegister" ->
            IF size = "Long" THEN Ret(c, addr_get(c, cea.reg))
            ELSE Ret(Fail(c, "Panic"), Zero32)                          \* unreachable!()
      [] cea.kind = "Address" -> read_mem(c, size, cea.addr)
      [] cea.kind = "Immediate" -> fetch_imm(c, size)

\* the register after its low byte / low word / whole is replaced by value
\* (`value as u32` alone would clear the high bits)
Merge_zero_extends(size, old, value) ==
    CASE size = "Byte" -> <<0, value[2] % W8>>
      [] size = "Word" -> <<0, value[2]>>
      [] size = "Long" -> value

Merge(size, old, value) ==
    CASE size = "Byte" -> <<old[1], (old[2] \div W8) * W8 + (value[2] % W8)>>
      [] size = "Word" -> <<old[1], value[2]>>
      [] size = "Long" -> value

\* Cpu::write_ea_byte / write_ea_word / write_ea_long, by operand size
write_ea(c, size, cea, value) ==
    IF ~Ok(c) THEN c
    ELSE
    CASE cea.kind = "DataRegister" ->
            [c EXCEPT !.data[cea.reg] = Merge(size, c.data[cea.reg], value)]
      [] cea.kind = "AddressRegister" ->
            IF size = "Long" THEN set_addr(c, cea.reg, value)
            ELSE Fail(c, "Panic")                                       \* unreachable!()
      [] cea.kind = "Address" -> write_mem(c, size, cea.addr, Trunc(size, value))
      [] cea.kind = "Immediate" -> Fail(c, "Panic")                     \* unreachable!()

\* Cpu::push_long
push_long(c, value) ==
    IF ~Ok(c) THEN c
    ELSE IF flag(c.sr, Supervisor)
    THEN Bind(wrapping_sub(c.ssp, <<0, 4>>),
              LAMBDA n : write_mem([c EXCEPT !.ssp = n], "Long", n, value))
    ELSE Bind(wrapping_sub(c.usp, <<0, 4>>),
              LAMBDA n : write_mem([c EXCEPT !.usp = n], "Long", n, value))

-----------------------------------------------------------------------------
(* Cpu::decode_execute, one operator per match arm; c is the state after the
   opcode fetch and i the decoded Instruction *)

\* set_flag(Zero, result == 0); set_flag(Negative, (result & msb) != 0)
SetZN(c, size, result) ==
    set_flag(set_flag(c, Zero, result = Zero32), Negative, Msb(size, result))

\* set_flag(Carry, false); set_flag(Overflow, false)
ClearCV(c) == set_flag(set_flag(c, Carry, FALSE), Overflow, FALSE)

\* set_flag(Overflow, false); set_flag(Carry, false)
ClearVC(c) == set_flag(set_flag(c, Overflow, FALSE), Carry, FALSE)

\* self.sr & 0xFF00 and self.sr & 0x00FF
SrHigh(srv) == (srv \div W8) * W8
SrLow(srv) == srv % W8

\* (without `& 0x00FF` the whole immediate word would reach SR)
exec_OriToCcr_whole_word(c) ==
    Bind(fetch_word(c),
         LAMBDA r : set_sr(r.c, Or16(r.c.sr, r.v[2])))

exec_OriToCcr(c) ==
    Bind(fetch_word(c),
         LAMBDA r : set_sr(r.c, SrHigh(r.c.sr) + Or16(SrLow(r.c.sr), r.v[2] % W8)))

exec_OriToSr(c) ==
    Bind(fetch_word(assert_supervisor(c)),
         LAMBDA r : set_sr(r.c, Or16(r.c.sr, r.v[2])))

exec_AndiToCcr(c) ==
    Bind(fetch_word(c),
         LAMBDA r : set_sr(r.c, SrHigh(r.c.sr) + And16(SrLow(r.c.sr), r.v[2] % W8)))

exec_AndiToSr(c) ==
    Bind(fetch_word(assert_supervisor(c)),
         LAMBDA r : set_sr(r.c, And16(r.c.sr, r.v[2])))

exec_EoriToCcr(c) ==
    Bind(fetch_word(c),
         LAMBDA r : set_sr(r.c, SrHigh(r.c.sr) + Xor16(SrLow(r.c.sr), r.v[2] % W8)))

exec_EoriToSr(c) ==
    Bind(fetch_word(assert_supervisor(c)),
         LAMBDA r : set_sr(r.c, Xor16(r.c.sr, r.v[2])))

\* The operands of an immediate instruction: compute_ea, read_ea_*, then the
\* immediate fetch; [c, ea, lhs, imm]
ImmOperands(c, i) ==
    Bind(compute_ea(c, i.ea, Bytes(i.size)), LAMBDA e :
    Bind(read_ea(e.c, i.size, e.v), LAMBDA lhs :
    Bind(fetch_imm(lhs.c, i.size), LAMBDA imm :
        [c |-> imm.c, ea |-> e.v, lhs |-> lhs.v, imm |-> imm.v])))

\* The operand of a one-operand instruction: compute_ea, then read_ea_*;
\* [c, ea, value]
UnaryOperand(c, i, increment) ==
    Bind(compute_ea(c, i.ea, increment), LAMBDA e :
    Bind(read_ea(e.c, i.size, e.v), LAMBDA rd :
        [c |-> rd.c, ea |-> e.v, value |-> rd.v]))

\* Ori / Andi / Eori: the flags, then the write of the result
LogicResult(o, size, result) ==
    write_ea(ClearCV(SetZN(o.c, size, result)), size, o.ea, result)

exec_Ori(c, i) ==
    Bind(ImmOperands(c, i), LAMBDA o : LogicResult(o, i.size, Or32(o.lhs, o.imm)))

exec_Andi(c, i) ==
    Bind(ImmOperands(c, i), LAMBDA o : LogicResult(o, i.size, And32(o.lhs, o.imm)))

exec_Eori(c, i) ==
    Bind(ImmOperands(c, i), LAMBDA o : LogicResult(o, i.size, Xor32(o.lhs, o.imm)))

\* Zero, Negative, Carry, Extend, Overflow in the order of the source, then
\* the write of the result
ArithResult(o, size, result, carry, overflow) ==
    write_ea(set_flag(set_flag(set_flag(SetZN(o.c, size, result),
                                        Carry, carry), Extend, carry),
                      Overflow, overflow),
             size, o.ea, result)

exec_Subi(c, i) ==
    Bind(ImmOperands(c, i), LAMBDA o :
    Bind(borrowing_sub(i.size, o.lhs, o.imm, FALSE), LAMBDA d :
        ArithResult(o, i.size, d.result, d.borrow,
                    checked_sub_is_none(i.size, o.lhs, o.imm))))

exec_Addi(c, i) ==
    Bind(ImmOperands(c, i), LAMBDA o :
    Bind(carrying_add(i.size, o.lhs, o.imm, FALSE), LAMBDA d :
        ArithResult(o, i.size, d.result, d.carry,
                    checked_add_is_none(i.size, o.lhs, o.imm))))

exec_Cmpi(c, i) ==
    Bind(ImmOperands(c, i), LAMBDA o :
    Bind(borrowing_sub(i.size, o.lhs, o.imm, FALSE), LAMBDA d :
        set_flag(set_flag(SetZN(o.c, i.size, d.result), Extend, d.borrow),
                 Overflow, checked_sub_is_none(i.size, o.lhs, o.imm))))

\* ((1 << bit) & value) != 0 for a u32 value and bit < 32
TestBit(value, bit) ==
    IF bit < 16 THEN (value[2] \div (2^bit)) % 2 = 1
    ELSE (value[1] \div (2^(bit - 16))) % 2 = 1

\* 1 << bit as a u32
BitMask(bit) == IF bit < 16 THEN <<0, 2^bit>> ELSE <<2^(bit - 16), 0>>

\* the value a bit instruction writes back (BCLR without the `!` would keep
\* only the selected bit)
BitResult_bclr_keeps_bit(op, value, bit) ==
    CASE op = "Bchg" -> Xor32(value, BitMask(bit))
      [] op = "Bclr" -> And32(value, BitMask(bit))
      [] op = "Bset" -> Or32(value, BitMask(bit))
      [] OTHER -> value

BitResult(op, value, bit) ==
    CASE op = "Bchg" -> Xor32(value, BitMask(bit))
      [] op = "Bclr" -> And32(value, Not32(BitMask(bit)))
      [] op = "Bset" -> Or32(value, BitMask(bit))
      [] OTHER -> value

\* Btst / Bchg / Bclr / Bset; i.aux = 1 is Some(register), 0 is None
exec_Bit(c, i) ==
    Bind(compute_ea(c, i.ea, 1), LAMBDA e :
    Bind(e.v.kind = "DataRegister", LAMBDA isReg :
    Bind(IF isReg THEN Ret(e.c, e.c.data[e.v.reg]) ELSE read_ea(e.c, "Byte", e.v),
         LAMBDA rd :
    Bind(IF i.aux = 1 THEN Ret(rd.c, rd.c.data[i.reg]) ELSE fetch_word(rd.c),
         LAMBDA nb :
    Bind(nb.v[2] % (IF isReg THEN 32 ELSE 8), LAMBDA bit :
    Bind(set_flag(nb.c, Zero, ~TestBit(rd.v, bit)), LAMBDA c1 :
        IF i.op = "Btst" THEN c1
        ELSE write_ea(c1, IF isReg THEN "Long" ELSE "Byte", e.v,
                      BitResult(i.op, rd.v, bit))))))))

exec_Movea(c, i) ==
    IF i.size = "Byte" THEN Fail(c, "Panic")                            \* unreachable!()
    ELSE
    Bind(UnaryOperand(c, i, Bytes(i.size)), LAMBDA o :
        IF ~Ok(o.c) THEN o.c
        ELSE set_addr(o.c, i.reg,
                      \* Word: (register & 0xFFFF0000) | value; Long: value
                      IF i.size = "Word"
                      THEN <<addr_get(o.c, i.reg)[1], o.value[2]>>
                      ELSE o.value))

\* The Move arm with the destination resolved before the source is read
exec_Move_dst_first(c, i) ==
    Bind(compute_ea(c, i.dst, Bytes(i.size)), LAMBDA dst :
    Bind(UnaryOperand(dst.c, i, Bytes(i.size)), LAMBDA o :
        write_ea(ClearCV(SetZN(o.c, i.size, o.value)), i.size, dst.v, o.value)))

exec_Move(c, i) ==
    Bind(UnaryOperand(c, i, Bytes(i.size)), LAMBDA o :
    Bind(compute_ea(ClearCV(SetZN(o.c, i.size, o.value)), i.dst, Bytes(i.size)),
         LAMBDA dst :
        write_ea(dst.c, i.size, dst.v, o.value)))

exec_MoveFromSr(c, i) ==
    Bind(compute_ea(assert_supervisor(c), i.ea, 2),
         LAMBDA e : write_ea(e.c, "Word", e.v, <<0, e.c.sr>>))

exec_MoveToCcr(c, i) ==
    Bind(compute_ea(c, i.ea, 1), LAMBDA e :
    Bind(read_ea(e.c, "Byte", e.v), LAMBDA rd :
        set_sr(rd.c, SrHigh(rd.c.sr) + rd.v[2])))

exec_MoveToSr(c, i) ==
    Bind(compute_ea(assert_supervisor(c), i.ea, 2), LAMBDA e :
    Bind(read_ea(e.c, "Word", e.v), LAMBDA rd :
        set_sr(rd.c, rd.v[2])))

\* if let Some(result) = 0.checked_sub(value)
\*     { result.checked_sub(if X { 0 } else { 1 }).is_none() } else { true }
NegxOverflow(size, value, x) ==
    IF ~checked_sub_is_none(size, Zero32, value)
    THEN checked_sub_is_none(size, borrowing_sub(size, Zero32, value, FALSE).result,
                             IF x THEN Zero32 ELSE <<0, 1>>)
    ELSE TRUE

exec_Negx(c, i) ==
    Bind(UnaryOperand(c, i, 1), LAMBDA o :          \* increment 1 at every size
    Bind(flag(o.c.sr, Extend), LAMBDA x :
    Bind(borrowing_sub(i.size, Zero32, o.value, x), LAMBDA d :
        ArithResult(o, i.size, d.result, d.borrow,
                    NegxOverflow(i.size, o.value, x)))))

exec_Clr(c, i) ==
    Bind(compute_ea(c, i.ea, Bytes(i.size)), LAMBDA e :
        write_ea(ClearCV(set_flag(set_flag(e.c, Zero, TRUE), Negative, FALSE)),
                 i.size, e.v, Zero32))

exec_Neg(c, i) ==
    Bind(UnaryOperand(c, i, 1), LAMBDA o :          \* increment 1 at every size
    Bind(borrowing_sub(i.size, Zero32, o.value, FALSE), LAMBDA d :
        ArithResult(o, i.size, d.result, d.borrow,
                    checked_sub_is_none(i.size, Zero32, o.value))))

exec_Not(c, i) ==
    Bind(UnaryOperand(c, i, Bytes(i.size)), LAMBDA o :
    Bind(Trunc(i.size, Not32(o.value)), LAMBDA result :
        write_ea(ClearVC(SetZN(o.c, i.size, result)), i.size, o.ea, result)))

\* Word: ((data as u8) as i8) as i16 as u16;  Long: ((data as u16) as i16) as i32 as u32
ExtResult(size, old) ==
    IF size = "Word"
    THEN <<0, IF old[2] % W8 >= 128 THEN (W16 - W8) + (old[2] % W8) ELSE old[2] % W8>>
    ELSE SignExtend16(old)

exec_Ext(c, i) ==
    Bind(ExtResult(i.size, c.data[i.reg]), LAMBDA result :
    Bind(ClearVC(SetZN(c, i.size, result)), LAMBDA c1 :
        CASE i.size = "Word" ->
                [c1 EXCEPT !.data[i.reg] = <<c.data[i.reg][1], result[2]>>]
          [] i.size = "Long" -> [c1 EXCEPT !.data[i.reg] = result]
          [] OTHER -> Fail(c, "Panic")))                                \* unreachable!()

exec_Swap(c, i) ==
    Bind(<<c.data[i.reg][2], c.data[i.reg][1]>>, LAMBDA result :
        ClearVC(SetZN([c EXCEPT !.data[i.reg] = result], "Long", result)))

exec_Pea(c, i) ==
    Bind(compute_ea(c, i.ea, 4), LAMBDA e :
    Bind(read_ea(e.c, "Long", e.v), LAMBDA rd :
        push_long(rd.c, rd.v)))

exec_Tas(c, i) ==
    Bind(compute_ea(c, i.ea, 1), LAMBDA e :
    Bind(read_ea(e.c, "Byte", e.v), LAMBDA rd :
        write_ea(ClearVC(SetZN(rd.c, "Byte", rd.v)), "Byte", e.v,
                 <<0, Or16(rd.v[2], 128)>>)))

exec_Moveq(c, i) ==
    Bind(<<IF i.aux >= 128 THEN W16 - 1 ELSE 0,
           IF i.aux >= 128 THEN (W16 - W8) + i.aux ELSE i.aux>>, LAMBDA result :
        ClearVC(SetZN([c EXCEPT !.data[i.reg] = result], "Long", result)))

\* The match of decode_execute on the decoded instruction i
execute(k, i) ==
    CASE i.op = "OriToCcr" -> exec_OriToCcr(k)
      [] i.op = "OriToSr" -> exec_OriToSr(k)
      [] i.op = "Ori" -> exec_Ori(k, i)
      [] i.op = "AndiToCcr" -> exec_AndiToCcr(k)
      [] i.op = "AndiToSr" -> exec_AndiToSr(k)
      [] i.op = "Andi" -> exec_Andi(k, i)
      [] i.op = "Subi" -> exec_Subi(k, i)
      [] i.op = "Addi" -> exec_Addi(k, i)
      [] i.op = "EoriToCcr" -> exec_EoriToCcr(k)
      [] i.op = "EoriToSr" -> exec_EoriToSr(k)
      [] i.op = "Eori" -> exec_Eori(k, i)
      [] i.op = "Cmpi" -> exec_Cmpi(k, i)
      [] i.op \in {"Btst", "Bchg", "Bclr", "Bset"} -> exec_Bit(k, i)
      [] i.op = "Movep" -> Fail(k, "Panic")                         \* todo!()
      [] i.op = "Movea" -> exec_Movea(k, i)
      [] i.op = "Move" -> exec_Move(k, i)
      [] i.op = "MoveFromSr" -> exec_MoveFromSr(k, i)
      [] i.op = "MoveToCcr" -> exec_MoveToCcr(k, i)
      [] i.op = "MoveToSr" -> exec_MoveToSr(k, i)
      [] i.op = "Negx" -> exec_Negx(k, i)
      [] i.op = "Clr" -> exec_Clr(k, i)
      [] i.op = "Neg" -> exec_Neg(k, i)
      [] i.op = "Not" -> exec_Not(k, i)
      [] i.op = "Ext" -> exec_Ext(k, i)
      [] i.op = "Nbcd" -> Fail(k, "Panic")                          \* todo!()
      [] i.op = "Swap" -> exec_Swap(k, i)
      [] i.op = "Pea" -> exec_Pea(k, i)
      [] i.op = "Illegal" -> Fail(k, "IllegalInstruction")
      [] i.op = "Tas" -> exec_Tas(k, i)
      [] i.op = "Moveq" -> exec_Moveq(k, i)
      [] OTHER -> Fail(k, "Panic")                                  \* _ => todo!()

\* Cpu::decode_execute: fetch the opcode, decode it, run the arm
decode_execute(c) ==
    Bind(fetch_word(c),
         LAMBDA f : IF ~Ok(f.c) THEN f.c ELSE execute(f.c, decode(f.v[2])))

-----------------------------------------------------------------------------
(* Inputs: ROM images and the register values a debugger writes *)

MaxSteps == 2            \* System::step calls explored per run

\* Big-endian bytes of a 16-bit word and of a u32
WordBytes(w) == <<w \div W8, w % W8>>
LongBytes(v) == WordBytes(v[1]) \o WordBytes(v[2])

\* The reset vectors of every image: SSP = 0x00011000 (in RAM), PC = 8
ResetSsp == <<1, 4096>>
ResetPc == <<0, 8>>
Header == LongBytes(ResetSsp) \o LongBytes(ResetPc)

\* The bytes of one instruction: the opcode word and its extension words
InstrBytes(words) ==
    WordBytes(words[1])
        \o (IF Len(words) >= 2 THEN WordBytes(words[2]) ELSE <<>>)
        \o (IF Len(words) >= 3 THEN WordBytes(words[3]) ELSE <<>>)

\* An image: the reset vectors, then the same instruction twice from address
\* 8 on, so that a second step works on the results of the first
Image(words) == Header \o InstrBytes(words) \o InstrBytes(words)

\* Opcode of an immediate-family or single-operand instruction:
\* base | size << 6 | mode << 3 | register
Op(base, sz, mode, reg) == base + sz * 64 + mode * 8 + reg

\* ORI, ANDI, SUBI, ADDI, EORI, CMPI  #imm,<ea>
ImmBases == {0, 512, 1024, 1536, 2560, 3072}
\* NEGX, CLR, NEG, NOT  <ea>
UnaryBases == {16384, 16896, 17408, 17920}
\* <ea> is D0 or (A0)
EaFields == {<<0, 0>>, <<2, 0>>}

ByteImms == {1, 128, 255}
WordImms == {1, 32768, 65535}
LongImms == {<<0, 1>>, <<32768, 0>>, <<65535, 65535>>}

Programs ==
       {<<Op(b, 0, e[1], e[2]), m>> : b \in ImmBases, e \in EaFields, m \in ByteImms}
  \cup {<<Op(b, 1, e[1], e[2]), m>> : b \in ImmBases, e \in EaFields, m \in WordImms}
  \cup {<<Op(b, 2, e[1], e[2]), m[1], m[2]>> : b \in ImmBases, e \in EaFields, m \in LongImms}
  \cup {<<Op(b, sz, e[1], e[2])>> : b \in UnaryBases, sz \in 0..2, e \in EaFields}
       \* ORI / ANDI / EORI to CCR (0x003C, 0x023C, 0x0A3C) and to SR (..7C)
  \cup {<<o, m>> : o \in {60, 124, 572, 636, 2620, 2684}, m \in {7, 20480, 65535}}
       \* MOVE SR,D0; MOVE D0,CCR; MOVE D0,SR
  \cup {<<16576>>, <<17600>>, <<18112>>}
       \* MOVEA.W / MOVEA.L  D0 | A0 | (A0), A0 | A7
  \cup {<<12352>>, <<12360>>, <<12368>>, <<8256>>, <<8264>>, <<8272>>,
        <<15936>>, <<11840>>}
       \* MOVEA.W #imm,A0
  \cup {<<12412, m>> : m \in WordImms}
       \* MOVE.B D0,D1; MOVE.W (A0)+,(A0)+; MOVE.L D0,(A0)
  \cup {<<4608>>, <<12504>>, <<8320>>}
       \* BCHG #1,D0; SWAP D0; EXT.W D0; PEA ($0400).W; TAS D0; MOVEQ #-1,D0
  \cup {<<2112, 1>>, <<18496>>, <<18560>>, <<18552, 1024>>, <<19136>>, <<28927>>}
       \* TST.B D7; NOP; ILLEGAL; MOVEP; ORI.B #1,A0 (no such instruction)
  \cup {<<18951>>, <<20081>>, <<19196>>, <<264, 0>>, <<8, 1>>}
       \* PEA (A0); RESET; STOP #$2700; RTE
  \cup {<<18512>>, <<20080>>, <<20082, 9984>>, <<20083>>}
       \* NEGX, CLR, NEG, NOT (A0)+; CLR, NEG -(A7); CLR (A7)+
  \cup {<<Op(b, sz, 3, 0)>> : b \in UnaryBases, sz \in 0..2}
  \cup {<<Op(b, sz, 4, 7)>> : b \in {16896, 17408}, sz \in 0..2}
  \cup {<<Op(16896, sz, 3, 7)>> : sz \in 0..2}
       \* CLR.W (A7); CLR.W 4(A7); CLR.W 4(A0)
  \cup {<<Op(16896, 1, 2, 7)>>, <<Op(16896, 1, 5, 7), 4>>, <<Op(16896, 1, 5, 0), 4>>}
       \* CMPI.W #1,(A7) | (A7)+ | -(A7) | 4(A7)
  \cup {<<Op(3072, 1, m, 7), 1>> : m \in {2, 3, 4}}
  \cup {<<Op(3072, 1, 5, 7), 1, 4>>}
       \* MOVE.B (A0),D0; MOVE.W (A0),D0
  \cup {<<4112>>, <<12304>>}
       \* BTST / BCHG / BCLR / BSET  #n,D0 | #n,(A0) | D0,D0 | D0,(A0)
  \cup {<<2048 + o, n>> : o \in {0, 64, 128, 192}, n \in {1, 31, 33}}
  \cup {<<2064 + o, n>> : o \in {0, 64, 128, 192}, n \in {1, 9}}
  \cup {<<256 + o + e>> : o \in {0, 64, 128, 192}, e \in {0, 16}}
       \* BTST D0,(xxx).W at 0x0008, 0x7FFE, 0x8000 and 0xFFFE
  \cup {<<312, w>> : w \in {8, 32766, 32768, 65534}}
       \* MOVE.W D0,0(A0,D0.W); MOVE.W (A0)+,0(A0,D0.W); MOVEA.W 0(PC,D0.W),A0;
       \* CLR.W 0(A0,D0.W); NBCD D0; TRAP #0; LINK A0,#0; UNLK A0
  \cup {<<12672, 0>>, <<12696, 0>>, <<12411, 0>>, <<16944, 0>>, <<18432>>,
        <<20032>>, <<20048, 0>>, <<20056>>}
       \* MOVE.B D0,#imm (destination mode 7, register 4)
  \cup {<<6592, 0>>}

\* An image of two different instructions: MOVE.W D0,(A0) fills the word
\* that MOVE.W (A0)+,(A0)+ then copies
Sequel(first, second) == Header \o InstrBytes(first) \o InstrBytes(second)

RomImages == {Image(p) : p \in Programs} \cup {Sequel(<<12416>>, <<12504>>)}

\* The images of the debugger runs: MOVE D0,SR; ORI #$FFFF,SR; EORI #$5000,SR;
\* ORI #7,CCR; MOVE D0,CCR; MOVEA.L D0,A7; CLR.W D0; ADDI.B #$FF,D0; ILLEGAL
DebugPrograms ==
    {<<18112>>, <<124, 65535>>, <<2684, 20480>>, <<60, 7>>, <<17600>>, <<11840>>,
     <<16960>>, <<1536, 255>>, <<19196>>}
\* MOVE D0,SR behind other reset vectors (SSP = 0x00014000), and an image
\* that ends inside the reset vectors
AltHeader == LongBytes(<<1, 16384>>) \o LongBytes(ResetPc)
ShortImage == LongBytes(ResetSsp) \o <<0, 0>>
DebugImages ==
    {Image(p) : p \in DebugPrograms}
        \cup {AltHeader \o InstrBytes(<<18112>>) \o InstrBytes(<<18112>>), ShortImage}

\* Register values a debugger writes
DataVals == {<<0, 0>>, <<0, 1>>, <<0, 127>>, <<0, 128>>, <<0, 32768>>, <<0, 65535>>,
             <<32768, 0>>, <<65535, 65535>>, <<4660, 22136>>}
AddrVals == {<<1, 0>>, <<65535, 0>>}    \* 0x00010000, the first RAM address; 0xFFFF0000
SpVals == {<<1, 8192>>}                 \* 0x00012000
SrVals == {0, 9984, 65535}              \* 0x0000, 0x2700, 0xFFFF
PcVals == {ResetPc}

\* MC68kCoreRegs values: D0 and A0, A7 vary, the other registers are 0
RegFile(d, a, s, f, p) ==
    [data |-> [n \in 0..7 |-> IF n = 0 THEN d ELSE Zero32],
     addr |-> [n \in 0..7 |-> IF n = 0 THEN a ELSE IF n = 7 THEN s ELSE Zero32],
     sr |-> <<0, f>>, pc |-> p]

\* the register files written before an instruction runs
RegFiles ==
    {RegFile(d, a, s, f, p) :
        d \in DataVals, a \in AddrVals, s \in SpVals, f \in {16, 9984, 10000}, p \in PcVals}

\* the register files of the debugger runs
DebugRegFiles ==
    {RegFile(d, a, s, f, p) :
        d \in {<<65535, 65535>>}, a \in {<<1, 0>>}, s \in SpVals,
        f \in SrVals, p \in PcVals}

NoRegs == [data |-> <<>>, addr |-> <<>>, sr |-> Zero32, pc |-> Zero32]
NoEntry == Instr("NoEntry", "None", None, None, 0, 0)

-----------------------------------------------------------------------------
(* The machine: System + SystemTarget *)

\* The Cpu fields and the RAM, as the record the CPU operators work on
CpuState ==
    [data |-> data, addr |-> addr, pc |-> pc, usp |-> usp, ssp |-> ssp,
     sr |-> sr, ram |-> ram, err |-> "none"]

NoInstr == Instr("None", "None", None, None, 0, 0)

\* `last`: the operation, the instruction it decoded, its error, its input,
\* and the CPU state it started from: all of it for a step, the stack
\* pointers and SR for a single-register write
New ==
    [data |-> [n \in 0..7 |-> Zero32], addr |-> [n \in 0..6 |-> Zero32],
     pc |-> Zero32, usp |-> Zero32, ssp |-> Zero32, sr |-> 0, ram |-> <<>>,
     err |-> "none"]
Last(op, instr, err, arg, pre) ==
    [op |-> op, instr |-> instr, err |-> err, arg |-> arg, pre |-> pre]

Pointers == [New EXCEPT !.usp = usp, !.ssp = ssp, !.sr = sr]

Commit(c) ==
    /\ data' = c.data
    /\ addr' = c.addr
    /\ pc' = c.pc
    /\ usp' = c.usp
    /\ ssp' = c.ssp
    /\ sr' = c.sr
    /\ ram' = c.ram
    /\ status' = IF c.err = "none" THEN "running" ELSE "panicked"

\* The counts of one invocation of wait_for_stop_reason: peeks of the
\* connection, steps executed, steps since the last peek, steps since a byte
\* became pending
NoObs == [peeks |-> 0, ran |-> 0, unpolled |-> 0, waited |-> 0]

\* SystemTarget::new: no breakpoints; nothing received, the loop not entered,
\* no packet exchanged
NoSession ==
    /\ packet = <<>>
    /\ breakpoints = {}
    /\ tick = 0
    /\ conn = "empty"
    /\ event = "none"
    /\ at = "idle"
    /\ obs = NoObs

\* Cpu::new, System::new(rom), SystemTarget::new
Init ==
    /\ data = New.data
    /\ addr = New.addr
    /\ pc = New.pc
    /\ usp = New.usp
    /\ ssp = New.ssp
    /\ sr = New.sr
    /\ is_stopped = FALSE
    /\ rom \in DebugImages
    /\ ram = New.ram
    /\ regs = NoRegs
    /\ status = "running"
    /\ steps = 0
    /\ last = Last("new", NoInstr, "none", <<>>, New)
    /\ opcode = 0
    /\ entry = NoEntry
    /\ NoSession

\* self.sr = 0x2700
ResetSr == 9984

\* Cpu::reset without the assignment to sr
reset_keeps_sr(c) ==
    Bind(read32(c.ram, <<0, 0>>), LAMBDA r1 :
    Bind(read32(c.ram, <<0, 4>>), LAMBDA r2 :
        IF r1.err # "none" THEN Fail(c, "Panic")
        ELSE IF r2.err # "none" THEN Fail([c EXCEPT !.ssp = r1.v], "Panic")
        ELSE [c EXCEPT !.ssp = r1.v, !.pc = r2.v]))

\* Cpu::reset: sr, then ssp = read32(0).unwrap(), then pc = read32(4).unwrap()
reset(c) ==
    Bind(read32(c.ram, <<0, 0>>), LAMBDA r1 :
    Bind(read32(c.ram, <<0, 4>>), LAMBDA r2 :
        IF r1.err # "none" THEN Fail([c EXCEPT !.sr = ResetSr], "Panic")
        ELSE IF r2.err # "none"
        THEN Fail([c EXCEPT !.sr = ResetSr, !.ssp = r1.v], "Panic")
        ELSE [c EXCEPT !.sr = ResetSr, !.ssp = r1.v, !.pc = r2.v]))

\* System::reset
Reset ==
    /\ status = "running"
    /\ Commit(reset(CpuState))
    /\ last' = Last("reset", NoInstr, reset(CpuState).err, <<>>, New)
    /\ regs' = NoRegs
    /\ UNCHANGED <<is_stopped, rom, packet, steps, opcode, entry, gdb>>

\* The instruction the next step decodes
FetchedInstr ==
    LET f == fetch_word(CpuState)
    IN  IF Ok(f.c) THEN decode(f.v[2]) ELSE NoInstr

\* System::step -> Cpu::step: decode_execute(bus).unwrap()
Step ==
    /\ status = "running"
    /\ steps < MaxSteps
    /\ Commit(decode_execute(CpuState))
    /\ steps' = steps + 1
    /\ last' = Last("step", FetchedInstr, decode_execute(CpuState).err, <<>>, CpuState)
    /\ regs' = NoRegs
    /\ UNCHANGED <<is_stopped, rom, packet, opcode, entry, gdb>>

\* SystemTarget::read_registers
read_registers(c) ==
    [data |-> [n \in 0..7 |-> c.data[n]],
     addr |-> [n \in 0..7 |-> addr_get(c, n)],
     sr |-> <<0, c.sr>>,
     pc |-> c.pc]

ReadRegisters ==
    /\ status = "running"
    /\ regs' = read_registers(CpuState)
    /\ UNCHANGED <<data, addr, pc, usp, ssp, sr, is_stopped, rom, packet, ram, status, steps,
                   last, opcode, entry, gdb>>

\* SystemTarget::write_registers: set_data and set_addr for 0..=7, then
\* set_sr(regs.sr as u16), then set_pc
write_registers(c, r) ==
    LET c1 == [c EXCEPT !.data = [n \in 0..7 |-> r.data[n]]]
        c2 == [c1 EXCEPT !.addr = [n \in 0..6 |-> r.addr[n]]]
        c3 == set_addr(c2, 7, r.addr[7])
        c4 == set_sr(c3, r.sr[2])
    IN  [c4 EXCEPT !.pc = r.pc]

WriteRegisters ==
    /\ status = "running"
    /\ \E r \in DebugRegFiles :
          /\ Commit(write_registers(CpuState, r))
          /\ last' = Last("write_registers", NoInstr, "none", r, New)
    /\ regs' = NoRegs
    /\ UNCHANGED <<is_stopped, rom, packet, steps, opcode, entry, gdb>>

\* SystemTarget::write_register
write_register(c, reg_id, value) ==
    CASE reg_id[1] = "Data" -> [c EXCEPT !.data[reg_id[2]] = value]
      [] reg_id[1] = "Addr" -> set_addr(c, reg_id[2], value)
      [] reg_id[1] = "Sr" -> set_sr(c, value[2])
      [] reg_id[1] = "Pc" -> [c EXCEPT !.pc = value]

\* The single-register writes explored
RegWrites ==
       {<<<<"Addr", 7>>, <<1, 16384>>>>}
  \cup {<<<<"Sr", 0>>, <<0, f>>>> : f \in {0, 65535}}

WriteRegister ==
    /\ status = "running"
    /\ \E w \in RegWrites :
          /\ Commit(write_register(CpuState, w[1], w[2]))
          /\ last' = Last("write_register", NoInstr, "none", w, Pointers)
    /\ regs' = NoRegs
    /\ UNCHANGED <<is_stopped, rom, packet, steps, opcode, entry, gdb>>

Next == Reset \/ Step \/ ReadRegisters \/ WriteRegisters \/ WriteRegister

Spec == Init /\ [][Next]_vars

-----------------------------------------------------------------------------
(* Instruction runs: every image of RomImages, started as main() starts it
   (System::new, reset) with a register file written by the debugger, then
   stepped *)

InitExec ==
    /\ rom \in RomImages
    /\ \E r \in RegFiles :
          LET c == write_registers(reset(New), r)
          IN  /\ data = c.data
              /\ addr = c.addr
              /\ pc = c.pc
              /\ usp = c.usp
              /\ ssp = c.ssp
              /\ sr = c.sr
              /\ ram = c.ram
              /\ last = Last("write_registers", NoInstr, "none", r, New)
    /\ is_stopped = FALSE
    /\ regs = NoRegs
    /\ status = "running"
    /\ steps = 0
    /\ opcode = 0
    /\ entry = NoEntry
    /\ NoSession

\* main: while !sys.cpu().is_stopped() { sys.step(); }
NextExec == ~is_stopped /\ Step

ExecSpec == InitExec /\ [][NextExec]_vars

-----------------------------------------------------------------------------
(* The decoder table: init_table computes one entry per opcode *)

InitDec ==
    /\ data = New.data
    /\ addr = New.addr
    /\ pc = New.pc
    /\ usp = New.usp
    /\ ssp = New.ssp
    /\ sr = New.sr
    /\ is_stopped = FALSE
    /\ rom = Header
    /\ ram = New.ram
    /\ regs = NoRegs
    /\ status = "running"
    /\ steps = 0
    /\ last = Last("new", NoInstr, "none", <<>>, New)
    /\ opcode \in 0..(W16 - 1)
    /\ entry = NoEntry
    /\ NoSession

\* table[opcode] = decode_N(version, opcode)
BuildEntry ==
    /\ entry = NoEntry
    /\ entry' = decode(opcode)
    /\ UNCHANGED <<data, addr, pc, usp, ssp, sr, is_stopped, rom, packet, ram, regs, status,
                   steps, last, opcode, gdb>>

NextDec == BuildEntry

DecSpec == InitDec /\ [][NextDec]_vars

-----------------------------------------------------------------------------
(* The debugger session: main() has loaded an image and reset the system;
   the stub handles breakpoint packets while the target is halted and runs
   wait_for_stop_reason after a resume *)

LoopLen == 1030          \* instructions in the image of the session
PollEvery == 1024        \* (tick % 1024) == 0

\* The image of the session: the reset vectors, then MOVEQ #1,D0 (0x7001)
\* LoopLen times
StopImage == Header \o [k \in 1..(2 * LoopLen) |-> IF k % 2 = 1 THEN 112 ELSE 1]

\* Breakpoint addresses a debugger sets: the reset PC and the PC two
\* instructions later; the raw kinds of its packets
BreakAddrs == {<<0, 8>>, <<0, 12>>}
Kinds == {1, 2}
\* The values of tick at which a byte may arrive on the connection
ArrivalTicks == {0, 1023}

InitStop ==
    /\ rom = StopImage
    /\ LET c == reset(New)
       IN  /\ data = c.data
           /\ addr = c.addr
           /\ pc = c.pc
           /\ usp = c.usp
           /\ ssp = c.ssp
           /\ sr = c.sr
           /\ ram = c.ram
    /\ is_stopped = FALSE
    /\ regs = NoRegs
    /\ status = "running"
    /\ steps = 0
    /\ last = Last("reset", NoInstr, "none", <<>>, New)
    /\ opcode = 0
    /\ entry = NoEntry
    /\ NoSession

\* The session as an operation finds it
Before ==
    [tick |-> tick, conn |-> conn, event |-> event, breakpoints |-> breakpoints,
     steps |-> steps]

\* add_sw_breakpoint: HashSet::insert; [breakpoints, ret]
add_sw_breakpoint_returns_true(bps, a, kind) ==
    [breakpoints |-> bps \cup {a}, ret |-> TRUE]

add_sw_breakpoint(bps, a, kind) ==
    [breakpoints |-> bps \cup {a}, ret |-> a \notin bps]

\* remove_sw_breakpoint: HashSet::remove; [breakpoints, ret]
remove_sw_breakpoint_clears(bps, a, kind) ==
    [breakpoints |-> {}, ret |-> a \in bps]

remove_sw_breakpoint(bps, a, kind) ==
    [breakpoints |-> bps \ {a}, ret |-> a \in bps]

\* The packet handled just before this one, when it was a breakpoint packet:
\* its name, its address and the set it found
Prior ==
    IF last.op \in {"add_sw_breakpoint", "remove_sw_breakpoint"}
    THEN [op |-> last.op, addr |-> last.arg.addr, before |-> last.arg.before]
    ELSE [op |-> "none", addr |-> Zero32, before |-> {}]

\* A breakpoint packet: its result, the set it found and the packet before it
\* are kept in `last`
BreakpointPacket(name, a, kind, r) ==
    /\ breakpoints' = r.breakpoints
    /\ last' = Last(name, NoInstr, "none",
                    [addr |-> a, kind |-> kind, before |-> breakpoints, ret |-> r.ret,
                     prior |-> Prior],
                    CpuState)

AddBreakpoint ==
    /\ status = "running"
    /\ at = "idle"
    /\ event \in {"none", "IncomingData", "SwBreak"}
    /\ \E a \in BreakAddrs, kind \in Kinds :
          BreakpointPacket("add_sw_breakpoint", a, kind,
                           add_sw_breakpoint(breakpoints, a, kind))
    /\ UNCHANGED <<data, addr, pc, usp, ssp, sr, is_stopped, rom, packet, ram, regs, status,
                   steps, opcode, entry, tick, conn, event, at, obs>>

RemoveBreakpoint ==
    /\ status = "running"
    /\ at = "idle"
    /\ event \in {"none", "IncomingData", "SwBreak"}
    /\ \E a \in BreakAddrs, kind \in Kinds :
          BreakpointPacket("remove_sw_breakpoint", a, kind,
                           remove_sw_breakpoint(breakpoints, a, kind))
    /\ UNCHANGED <<data, addr, pc, usp, ssp, sr, is_stopped, rom, packet, ram, regs, status,
                   steps, opcode, entry, tick, conn, event, at, obs>>

\* SingleThreadResume::resume(None), then the entry of wait_for_stop_reason:
\* let mut tick = 0
Resume ==
    /\ status = "running"
    /\ at = "idle"
    /\ event \in {"none", "IncomingData", "SwBreak"}
    /\ tick' = 0
    /\ event' = "none"
    /\ at' = "poll"
    /\ obs' = NoObs
    /\ last' = Last("resume", NoInstr, "none", Before, CpuState)
    /\ UNCHANGED <<data, addr, pc, usp, ssp, sr, is_stopped, rom, packet, ram, regs, status,
                   steps, opcode, entry, breakpoints, conn>>

\* A byte arrives on the connection, or the connection breaks
Arrive ==
    /\ status = "running"
    /\ conn = "empty"
    /\ event = "none"
    /\ tick \in ArrivalTicks
    /\ conn' \in {"byte", "broken"}
    /\ obs' = [obs EXCEPT !.waited = 0]
    /\ UNCHANGED <<data, addr, pc, usp, ssp, sr, is_stopped, rom, packet, ram, regs, status,
                   steps, last, opcode, entry, breakpoints, tick, event, at>>

\* (tick % 1024) == 0 tested after tick += 1: the first poll comes after
\* the first step
should_peek_after_increment(t) == t % PollEvery = 1

\* (tick % 1024) == 0
should_peek(t) == t % PollEvery = 0

\* conn.peek().map(|b| b.is_some()).unwrap_or(false)
peek_unwrap_or_false(connv) == connv = "byte"

\* conn.peek().map(|b| b.is_some()).unwrap_or(true)
peek(connv) == connv # "empty"

\* conn.read().map_err(WaitForStopReasonError::Connection)?, then
\* return Ok(Event::IncomingData(byte)): the outcomes [event, conn].  A
\* pending byte is read; on a broken connection the read may fail as well
read(connv) ==
    IF connv = "byte"
    THEN {[event |-> "IncomingData", conn |-> "empty"]}
    ELSE {[event |-> "IncomingData", conn |-> "empty"],
          [event |-> "ConnectionError", conn |-> connv]}

\* wait_for_stop_reason from the loop test to the call of target.step
Poll ==
    /\ status = "running"
    /\ at = "poll"
    /\ IF is_stopped
       THEN /\ event' = "Terminated"
            /\ at' = "idle"
            /\ UNCHANGED <<conn, obs>>
       ELSE IF should_peek(tick) /\ peek(conn)
       THEN /\ \E r \in read(conn) : event' = r.event /\ conn' = r.conn
            /\ at' = "idle"
            /\ obs' = [obs EXCEPT !.peeks = @ + 1, !.unpolled = 0]
       ELSE /\ at' = "step"
            /\ obs' = IF should_peek(tick)
                      THEN [obs EXCEPT !.peeks = @ + 1, !.unpolled = 0]
                      ELSE obs
            /\ UNCHANGED <<event, conn>>
    /\ last' = Last("poll", NoInstr, "none", Before, CpuState)
    /\ UNCHANGED <<data, addr, pc, usp, ssp, sr, is_stopped, rom, packet, ram, regs, status,
                   steps, opcode, entry, breakpoints, tick>>

\* SystemTarget::step with the breakpoint looked up at the PC before the step
target_step_checks_entry_pc(c, bps) ==
    Bind(decode_execute(c), LAMBDA n : [c |-> n, hit |-> c.pc \in bps])

\* SystemTarget::step: sys.step(), then breakpoints.contains(&pc); [c, hit]
target_step(c, bps) ==
    Bind(decode_execute(c), LAMBDA n : [c |-> n, hit |-> n.pc \in bps])

\* if target.step() { return SwBreak } tick += 1; a step that panics ends
\* the process inside sys.step()
AfterStep(r) ==
    /\ Commit(r.c)
    /\ last' = Last("target_step", FetchedInstr, r.c.err, Before, CpuState)
    /\ IF ~Ok(r.c) THEN UNCHANGED <<event, at, tick>>
       ELSE IF r.hit THEN event' = "SwBreak" /\ at' = "idle" /\ tick' = tick
       ELSE event' = event /\ at' = "poll" /\ tick' = tick + 1

TargetStep ==
    /\ status = "running"
    /\ at = "step"
    /\ AfterStep(target_step(CpuState, breakpoints))
    /\ steps' = steps + 1
    /\ obs' = [obs EXCEPT !.ran = @ + 1, !.unpolled = @ + 1,
                          !.waited = IF conn # "empty" THEN @ + 1 ELSE @]
    /\ regs' = NoRegs
    /\ UNCHANGED <<is_stopped, rom, packet, opcode, entry, breakpoints, conn>>

NextStop ==
    AddBreakpoint \/ RemoveBreakpoint \/ Resume \/ Arrive \/ Poll \/ TargetStep

StopSpec == InitStop /\ [][NextStop]_vars

-----------------------------------------------------------------------------
(* The register packets: MC68kCoreRegs::gdb_serialize writes the bytes of a
   `g` reply, gdb_deserialize parses the bytes of a `G` packet *)

MaxSeed == 40            \* register files 0..MaxSeed are serialized

\* u32::to_le_bytes: the least significant byte first (to_be_bytes is the
\* other byte order)
to_be_bytes(v) == <<v[1] \div W8, v[1] % W8, v[2] \div W8, v[2] % W8>>

to_le_bytes(v) == <<v[2] % W8, v[2] \div W8, v[1] % W8, v[1] \div W8>>

\* u32::from_le_bytes
from_le_bytes(b) == <<b[4] * W8 + b[3], b[2] * W8 + b[1]>>

\* for register in <array of 8> { for byte in register.to_le_bytes() { .. } }
RECURSIVE SerializeFrom(_, _)
SerializeFrom(registers, n) ==
    IF n > 7 THEN <<>>
    ELSE to_le_bytes(registers[n]) \o SerializeFrom(registers, n + 1)

\* MC68kCoreRegs::gdb_serialize: the bytes handed to write_byte, in order
gdb_serialize(r) ==
    SerializeFrom(r.data, 0) \o SerializeFrom(r.addr, 0)
        \o to_le_bytes(r.sr) \o to_le_bytes(r.pc)

\* The k-th read_exact of four bytes (k from 0) and whether it succeeds
Group(bytes, k) == from_le_bytes(SubSeq(bytes, 4 * k + 1, 4 * k + 4))
HasGroup(bytes, k) == 4 * k + 4 <= Len(bytes)

\* MC68kCoreRegs::gdb_deserialize: [regs, err]; the registers read before the
\* bytes run out are stored, the others keep their value
gdb_deserialize(r, bytes) ==
    [regs |-> [data |-> [n \in 0..7 |-> IF HasGroup(bytes, n)
                                        THEN Group(bytes, n) ELSE r.data[n]],
               addr |-> [n \in 0..7 |-> IF HasGroup(bytes, 8 + n)
                                        THEN Group(bytes, 8 + n) ELSE r.addr[n]],
               sr |-> IF HasGroup(bytes, 16) THEN Group(bytes, 16) ELSE r.sr,
               pc |-> IF HasGroup(bytes, 17) THEN Group(bytes, 17) ELSE r.pc],
     err |-> IF HasGroup(bytes, 17) THEN "none" ELSE "Err"]

\* MC68kCoreRegs::default()
DefaultRegs ==
    [data |-> [n \in 0..7 |-> Zero32], addr |-> [n \in 0..7 |-> Zero32],
     sr |-> Zero32, pc |-> Zero32]

\* Register files whose eighteen registers and whose bytes all differ
SeedReg(s, j) == <<(4660 + 257 * j + s) % W16, (22136 + 4369 * j + 255 * s) % W16>>
SeedRegFile(s) ==
    [data |-> [n \in 0..7 |-> SeedReg(s, n)],
     addr |-> [n \in 0..7 |-> SeedReg(s, 8 + n)],
     sr |-> SeedReg(s, 16), pc |-> SeedReg(s, 17)]
WireRegs == {SeedRegFile(s) : s \in 0..MaxSeed} \cup DebugRegFiles

InitWire ==
    /\ data = New.data
    /\ addr = New.addr
    /\ pc = New.pc
    /\ usp = New.usp
    /\ ssp = New.ssp
    /\ sr = New.sr
    /\ is_stopped = FALSE
    /\ rom = Header
    /\ ram = New.ram
    /\ regs \in WireRegs
    /\ status = "running"
    /\ steps = 0
    /\ last = Last("new", NoInstr, "none", <<>>, New)
    /\ opcode = 0
    /\ entry = NoEntry
    /\ NoSession

\* regs.gdb_serialize(write_byte): the reply to `g`
GdbSerialize ==
    /\ last.op # "gdb_serialize"
    /\ packet' = gdb_serialize(regs)
    /\ last' = Last("gdb_serialize", NoInstr, "none", regs, New)
    /\ UNCHANGED <<data, addr, pc, usp, ssp, sr, is_stopped, rom, ram, regs, status,
                   steps, opcode, entry, gdb>>

\* regs.gdb_deserialize(bytes) into a default MC68kCoreRegs: the bytes are
\* those just serialized, whole or cut short
AfterDeserialize(bytes, r) ==
    /\ packet' = bytes
    /\ regs' = r.regs
    /\ last' = Last("gdb_deserialize", NoInstr, r.err,
                    [sent |-> regs, whole |-> bytes = packet], New)

GdbDeserialize ==
    /\ last.op = "gdb_serialize"
    /\ \E n \in {Len(packet), Len(packet) - 2, 6} :
          AfterDeserialize(SubSeq(packet, 1, n),
                           gdb_deserialize(DefaultRegs, SubSeq(packet, 1, n)))
    /\ UNCHANGED <<data, addr, pc, usp, ssp, sr, is_stopped, rom, ram, status,
                   steps, opcode, entry, gdb>>

NextWire == GdbSerialize \/ GdbDeserialize

WireSpec == InitWire /\ [][NextWire]_vars

-----------------------------------------------------------------------------
(* Memory: main() has loaded an image and reset the system; the Bus of the
   System is called directly, by the memory packets of the debugger
   (read_addrs, write_addrs) and by the instructions of the image *)

\* The images: MOVEQ #-1,D0 (0x70FF), then MOVE.W D0,(xxx).L (0x33C0) to the
\* first RAM address or to a ROM address
MemImages ==
    {Sequel(<<28927>>, <<13248, 1, 0>>), Sequel(<<28927>>, <<13248, 0, 8>>)}

\* Addresses of the bus calls: the first ROM address and the last two, the
\* first RAM address, two bytes and one byte below the end of RAM, the first
\* unmapped address and the last address
BusAddrs ==
    {<<0, 0>>, <<0, 65534>>, <<0, 65535>>, <<1, 0>>, <<255, 65534>>,
     <<255, 65535>>, <<256, 0>>, <<65535, 65535>>}
BusWidths == {1, 2, 4}
\* The value written by a call of n bytes: 0x78, 0x5678, 0x12345678
BusValue(n) ==
    CASE n = 1 -> <<0, 120>> [] n = 2 -> <<0, 22136>> [] n = 4 -> <<4660, 22136>>

\* start_addr and data of the memory packets; a read buffer holds what the
\* stub left in it
MemStarts == {<<0, 0>>, <<0, 1>>, <<0, 8>>, <<1, 0>>, <<256, 0>>}
MemBuffers == {<<170, 170>>, <<170, 170, 170, 170>>}
MemData == {<<17, 34>>, <<17, 34, 51, 68>>}

InitMem ==
    /\ rom \in MemImages
    /\ LET c == reset(New)
       IN  /\ data = c.data
           /\ addr = c.addr
           /\ pc = c.pc
           /\ usp = c.usp
           /\ ssp = c.ssp
           /\ sr = c.sr
           /\ ram = c.ram
    /\ is_stopped = FALSE
    /\ regs = NoRegs
    /\ status = "running"
    /\ steps = 0
    /\ last = Last("reset", NoInstr, "none", <<>>, New)
    /\ opcode = 0
    /\ entry = NoEntry
    /\ NoSession

\* Bus::read8 / read16 / read32 of the System, by the byte count
BusCall(ramf, a, n) ==
    CASE n = 1 -> read8(ramf, a) [] n = 2 -> read16(ramf, a) [] n = 4 -> read32(ramf, a)

AfterBusLoad(a, n, r) ==
    /\ status' = IF r.err = "Panic" THEN "panicked" ELSE "running"
    /\ last' = Last("read", NoInstr, r.err, [addr |-> a, n |-> n, value |-> r.v],
                    CpuState)

BusLoad ==
    /\ status = "running"
    /\ \E a \in BusAddrs, n \in BusWidths : AfterBusLoad(a, n, BusCall(ram, a, n))
    /\ UNCHANGED <<data, addr, pc, usp, ssp, sr, is_stopped, rom, packet, ram, regs,
                   steps, opcode, entry, gdb>>

\* Bus::write8 / write16 / write32 of the System
AfterBusStore(a, n, r) ==
    /\ ram' = r.ram
    /\ status' = IF r.err = "Panic" THEN "panicked" ELSE "running"
    /\ last' = Last("write", NoInstr, r.err,
                    [addr |-> a, n |-> n, value |-> BusValue(n)], CpuState)

BusStore ==
    /\ status = "running"
    /\ \E a \in BusAddrs, n \in BusWidths :
          AfterBusStore(a, n, BusWrite(ram, a, BusValue(n), n))
    /\ UNCHANGED <<data, addr, pc, usp, ssp, sr, is_stopped, rom, packet, regs,
                   steps, opcode, entry, gdb>>

\* The result of a memory packet for the error of a bus call: map_err(|_| ())?
TargetError(err) == IF err = "Panic" THEN "Panic" ELSE "TargetError"

\* read_addrs: for i in (start_addr as usize)..data.len()
\*                 { data[i] = self.sys.read8(i as u32).map_err(|_| ())?; }
RECURSIVE read_addrs_from(_, _, _)
read_addrs_from(ramf, i, buf) ==
    IF i >= Len(buf) THEN [err |-> "none", data |-> buf]
    ELSE Bind(read8(ramf, <<i \div W16, i % W16>>),
              LAMBDA r : IF r.err = "none"
                         THEN read_addrs_from(ramf, i + 1, [buf EXCEPT ![i + 1] = r.v[2]])
                         ELSE [err |-> TargetError(r.err), data |-> buf])

read_addrs(ramf, start_addr, buf) == read_addrs_from(ramf, Index(start_addr), buf)

\* write_addrs: for i in (start_addr as usize)..data.len()
\*                  { self.sys.write8(i as u32, data[i]).map_err(|_| ())?; }
RECURSIVE write_addrs_from(_, _, _)
write_addrs_from(ramf, i, buf) ==
    IF i >= Len(buf) THEN [err |-> "none", ram |-> ramf]
    ELSE Bind(BusWrite(ramf, <<i \div W16, i % W16>>, <<0, buf[i + 1]>>, 1),
              LAMBDA r : IF r.err = "none"
                         THEN write_addrs_from(r.ram, i + 1, buf)
                         ELSE [err |-> TargetError(r.err), ram |-> r.ram])

write_addrs(ramf, start_addr, buf) == write_addrs_from(ramf, Index(start_addr), buf)

AfterReadAddrs(start_addr, buf, r) ==
    /\ packet' = r.data
    /\ status' = IF r.err = "Panic" THEN "panicked" ELSE "running"
    /\ last' = Last("read_addrs", NoInstr, r.err, [addr |-> start_addr, data |-> buf],
                    CpuState)

ReadAddrs ==
    /\ status = "running"
    /\ \E start_addr \in MemStarts, buf \in MemBuffers :
          AfterReadAddrs(start_addr, buf, read_addrs(ram, start_addr, buf))
    /\ UNCHANGED <<data, addr, pc, usp, ssp, sr, is_stopped, rom, ram, regs,
                   steps, opcode, entry, gdb>>

AfterWriteAddrs(start_addr, buf, r) ==
    /\ packet' = buf
    /\ ram' = r.ram
    /\ status' = IF r.err = "Panic" THEN "panicked" ELSE "running"
    /\ last' = Last("write_addrs", NoInstr, r.err, [addr |-> start_addr, data |-> buf],
                    CpuState)

WriteAddrs ==
    /\ status = "running"
    /\ \E start_addr \in MemStarts, buf \in MemData :
          AfterWriteAddrs(start_addr, buf, write_addrs(ram, start_addr, buf))
    /\ UNCHANGED <<data, addr, pc, usp, ssp, sr, is_stopped, rom, regs,
                   steps, opcode, entry, gdb>>

NextMem == BusLoad \/ BusStore \/ ReadAddrs \/ WriteAddrs \/ Step

MemSpec == InitMem /\ [][NextMem]_vars

-----------------------------------------------------------------------------
(* What the properties below observe *)

\* One bit of SR, read arithmetically
SrBit(srv, f) == (srv \div f) % 2 = 1

\* Bit k (0..31) of a u32
BitOf(v, k) == IF k < 16 THEN (v[2] \div (2^k)) % 2 ELSE (v[1] \div (2^(k - 16))) % 2

\* The carry into bit k of a + b + cin, by a ripple-carry adder
RECURSIVE CarryInto(_, _, _, _)
CarryInto(a, b, cin, k) ==
    IF k = 0 THEN cin
    ELSE (BitOf(a, k - 1) + BitOf(b, k - 1) + CarryInto(a, b, cin, k - 1)) \div 2

\* Bit k of a + b + cin
SumBit(a, b, cin, k) == (BitOf(a, k) + BitOf(b, k) + CarryInto(a, b, cin, k)) % 2

\* Operand width in bits
Width(size) == CASE size = "Byte" -> 8 [] size = "Word" -> 16 [] size = "Long" -> 32

\* The big-endian operand of the given size at a RAM address
MemValue(ramf, a, size) ==
    CASE size = "Byte" -> <<0, RamByte(ramf, Index(a))>>
      [] size = "Word" -> <<0, RamByte(ramf, Index(a)) * W8 + RamByte(ramf, Index(a) + 1)>>
      [] size = "Long" -> <<RamByte(ramf, Index(a)) * W8 + RamByte(ramf, Index(a) + 1),
                            RamByte(ramf, Index(a) + 2) * W8 + RamByte(ramf, Index(a) + 3)>>

\* The word of the image at byte offset i
RomWord(i) == rom[i + 1] * W8 + rom[i + 2]

\* The immediate operand that follows the opcode of the last step
ImmOf(size) ==
    CASE size = "Byte" -> <<0, RomWord(Index(last.pre.pc) + 2) % W8>>
      [] size = "Word" -> <<0, RomWord(Index(last.pre.pc) + 2)>>
      [] size = "Long" -> <<RomWord(Index(last.pre.pc) + 2), RomWord(Index(last.pre.pc) + 4)>>

\* The last operation was a completed step of one of the instructions ops
\* whose operand is a data register or the memory an address register An,
\* n < 7, points to
StepOf(ops) ==
    /\ last.op = "step"
    /\ last.err = "none"
    /\ last.instr.op \in ops
    /\ \/ last.instr.ea.mode = "DataRegister"
       \/ last.instr.ea.mode = "Address" /\ last.instr.ea.reg < 7

\* The operand of the last step before it, and after it
OperandBefore ==
    IF last.instr.ea.mode = "DataRegister"
    THEN Trunc(last.instr.size, last.pre.data[last.instr.ea.reg])
    ELSE MemValue(last.pre.ram, last.pre.addr[last.instr.ea.reg], last.instr.size)

OperandAfter ==
    IF last.instr.ea.mode = "DataRegister"
    THEN Trunc(last.instr.size, data[last.instr.ea.reg])
    ELSE MemValue(ram, last.pre.addr[last.instr.ea.reg], last.instr.size)

\* ADDI, SUBI, NEG, NEGX as the sum A + B + cin at the operand width:
\* dst + imm, dst + ~imm + 1, 0 + ~dst + 1, 0 + ~dst + (1 - X)
ArithOps == {"Addi", "Subi", "Neg", "Negx"}
TermA == IF last.instr.op \in {"Addi", "Subi"} THEN OperandBefore ELSE Zero32
TermB ==
    CASE last.instr.op = "Addi" -> ImmOf(last.instr.size)
      [] last.instr.op = "Subi" -> Not32(ImmOf(last.instr.size))
      [] OTHER -> Not32(OperandBefore)
TermC ==
    CASE last.instr.op = "Addi" -> 0
      [] last.instr.op = "Negx" -> IF SrBit(last.pre.sr, 16) THEN 0 ELSE 1
      [] OTHER -> 1

\* the carry out of the adder; a subtraction borrows when the adder does not carry
CarryOut == CarryInto(TermA, TermB, TermC, Width(last.instr.size))
CarryOrBorrow == IF last.instr.op = "Addi" THEN CarryOut = 1 ELSE CarryOut = 0

\* two's-complement overflow: the carries into and out of the sign bit differ
SignedOverflow == CarryOut # CarryInto(TermA, TermB, TermC, Width(last.instr.size) - 1)

\* a + n for a small signed n, modulo 2^32
Plus(a, n) ==
    LET lo == (a[2] + n) % W16
    IN  <<(a[1] + (a[2] + n - lo) \div W16) % W16, lo>>

\* The active stack pointer of a CPU state: SSP in supervisor mode, else USP
ActiveSp(srv, u, s) == IF SrBit(srv, 8192) THEN s ELSE u

-----------------------------------------------------------------------------
(* Properties *)

\* C1: every write to the status register passes through the legal-bit mask
\* 0xA71F, so in every reachable state SR has no bit set outside 0xA71F.
C1_SrWithinLegalMask == And16(sr, 42783) = sr

\* C2: reading A7 through the register accessor (the debugger's register
\* view) returns ssp if the Supervisor bit of SR is set and usp otherwise;
\* writing A7 through set_addr(7, v) changes only the active stack pointer
\* and leaves the other one, and SR, unchanged.
C2_A7RoutedBySupervisor ==
    /\ regs # NoRegs => regs.addr[7] = (IF SrBit(sr, 8192) THEN ssp ELSE usp)
    /\ (last.op = "write_register" /\ last.arg[1] = <<"Addr", 7>>) =>
          /\ sr = last.pre.sr
          /\ IF SrBit(last.pre.sr, 8192)
             THEN ssp = last.arg[2] /\ usp = last.pre.usp
             ELSE usp = last.arg[2] /\ ssp = last.pre.ssp

\* A7 was written and read back in user mode while the two stack pointers differ
C2_Witness ==
    /\ regs # NoRegs
    /\ last.op = "write_register"
    /\ last.arg[1] = <<"Addr", 7>>
    /\ ~SrBit(sr, 8192)
    /\ usp # ssp
    /\ regs.addr[7] = last.arg[2]

OpMode == Bits(opcode, 3, 5)
OpReg == Bits(opcode, 0, 2)
OpSize == Bits(opcode, 6, 7)
OpLine == Bits(opcode, 12, 15)

\* ORI/ANDI/SUBI/ADDI/EORI/CMPI #imm,<ea>: line 0, bit 8 clear, a size
ImmFamily ==
    /\ OpLine = 0
    /\ Bits(opcode, 8, 8) = 0
    /\ Bits(opcode, 9, 11) \in {0, 1, 2, 3, 5, 6}
    /\ OpSize # 3

\* ORI/ANDI/EORI #imm,CCR and #imm,SR, instructions of their own
ToCcrOrSr ==
    /\ Bits(opcode, 9, 11) \in {0, 1, 5}
    /\ OpMode = 7
    /\ OpReg = 4
    /\ OpSize \in {0, 1}

\* MOVE <ea>,<ea>: lines 1, 2, 3 except the MOVEA destination
MoveFamily == OpLine \in {1, 2, 3} /\ Bits(opcode, 6, 8) # 1

\* NEGX/CLR/NEG/NOT <ea>: line 4, bits 11..8 = 0, 2, 4, 6, a size
UnaryFamily == OpLine = 4 /\ Bits(opcode, 8, 11) \in {0, 2, 4, 6} /\ OpSize # 3

\* C4: an opcode of a family fixed by its upper bits whose mode/register field
\* the family's legal-mode table rejects has the table entry Illegal, never an
\* instruction of another family.
C4_RejectedOperandIsIllegal ==
    entry # NoEntry =>
        /\ (ImmFamily /\ ~ToCcrOrSr /\ ea_type0(OpMode, OpReg) = None)
              => entry.op = "Illegal"
        /\ (MoveFamily /\ (\/ ea_type0(OpMode, OpReg) = None
                           \/ ea_type1(Bits(opcode, 6, 8), Bits(opcode, 9, 11)) = None))
              => entry.op = "Illegal"
        /\ (UnaryFamily /\ ea_type0(OpMode, OpReg) = None) => entry.op = "Illegal"

\* The mnemonic of an opcode in the MC68000 encoding, for the mnemonics of C5
\* with a register, register-indirect or immediate operand; "None" otherwise
Mnemonic(op) ==
    CASE op = 20080 -> "Reset"                                    \* 0x4E70
      [] op = 20081 -> "Nop"                                      \* 0x4E71
      [] op = 20082 -> "Stop"                                     \* 0x4E72
      [] op = 20083 -> "Rte"                                      \* 0x4E73
      [] op = 20085 -> "Rts"                                      \* 0x4E75
      [] op = 20086 -> "Trapv"                                    \* 0x4E76
      [] op = 20087 -> "Rtr"                                      \* 0x4E77
      [] Bits(op, 4, 15) = 1252 -> "Trap"                         \* 0x4E4x
      [] Bits(op, 3, 15) = 2506 -> "Link"                         \* 0x4E50
      [] Bits(op, 3, 15) = 2507 -> "Unlk"                         \* 0x4E58
      [] Bits(op, 4, 15) = 1254 -> "MoveUsp"                      \* 0x4E6x
      [] Bits(op, 3, 15) = 2514 -> "Jsr"                          \* 0x4E90 JSR (An)
      [] Bits(op, 3, 15) = 2522 -> "Jmp"                          \* 0x4ED0 JMP (An)
      [] Bits(op, 3, 15) = 2322 -> "Movem"                        \* 0x4890 MOVEM.W list,(An)
      [] Bits(op, 12, 15) = 0 /\ Bits(op, 8, 8) = 1 /\ Bits(op, 3, 5) = 1 -> "Movep"
      [] Bits(op, 12, 15) = 4 /\ Bits(op, 6, 8) = 7 /\ Bits(op, 3, 5) = 2 -> "Lea"
      [] Bits(op, 12, 15) = 4 /\ Bits(op, 6, 8) = 6 /\ Bits(op, 3, 5) = 0 -> "Chk"
      [] Bits(op, 12, 15) = 5 /\ Bits(op, 6, 7) = 3 /\ Bits(op, 3, 5) = 0 -> "Scc"
      [] Bits(op, 12, 15) = 5 /\ Bits(op, 6, 7) = 3 /\ Bits(op, 3, 5) = 1 -> "Dbcc"
      [] Bits(op, 12, 15) = 5 /\ Bits(op, 6, 7) # 3 /\ Bits(op, 3, 5) = 0 ->
            IF Bits(op, 8, 8) = 0 THEN "Addq" ELSE "Subq"
      [] Bits(op, 12, 15) = 6 /\ Bits(op, 0, 7) = 0 ->            \* 16-bit displacement
            CASE Bits(op, 8, 11) = 0 -> "Bra"
              [] Bits(op, 8, 11) = 1 -> "Bsr"
              [] OTHER -> "Bcc"
      [] Bits(op, 12, 15) = 7 /\ Bits(op, 8, 8) = 0 -> "Moveq"
      [] Bits(op, 12, 15) = 8 /\ Bits(op, 6, 7) = 3 /\ Bits(op, 3, 5) = 0 ->
            IF Bits(op, 8, 8) = 0 THEN "Divu" ELSE "Divs"
      [] OTHER -> "None"

\* C5: the decoder classifies every listed mnemonic of the MC68000 user-mode
\* instruction set: a valid encoding of MOVEP, TRAP, LINK/UNLK, MOVE USP,
\* RESET, NOP, STOP, RTE, RTS, TRAPV, RTR, JSR, JMP, MOVEM, LEA, CHK, ADDQ,
\* SUBQ, Scc, DBcc, BRA, BSR, Bcc, MOVEQ, DIVU or DIVS decodes to that
\* mnemonic's variant (0x4E71 to Nop, 0x4E75 to Rts), not to Illegal.
C5_MnemonicsClassified ==
    (entry # NoEntry /\ Mnemonic(opcode) # "None") => entry.op = Mnemonic(opcode)

\* C6: the Size in the decoded record of a sized instruction family is the one
\* encoded in opcode bits 7..6: 00 Byte, 01 Word, 10 Long.
C6_SizeFromBits7_6 ==
    entry.op \in {"Ori", "Andi", "Subi", "Addi", "Eori", "Cmpi",
                  "Negx", "Clr", "Neg", "Not", "Tst"} =>
        entry.size = (CASE OpSize = 0 -> "Byte" [] OpSize = 1 -> "Word"
                        [] OpSize = 2 -> "Long" [] OTHER -> "None")

\* C7: an execution of ORI, ANDI, EORI, CMPI, NOT or CLR to an effective
\* address leaves the Extend (X) bit of SR as it was before the step.
C7_ExtendUnchanged ==
    StepOf({"Ori", "Andi", "Eori", "Cmpi", "Not", "Clr"}) =>
        SrBit(sr, 16) = SrBit(last.pre.sr, 16)

\* C8: ADDI, SUBI, NEG and NEGX compute dst+imm, dst-imm, 0-dst, 0-dst-X
\* modulo 2^w at the operand width w and set C to the unsigned carry/borrow
\* out of width w, X to C, Z to (result = 0) and N to the most significant bit
\* of the result.
C8_ArithResultAndFlags ==
    StepOf(ArithOps) =>
        /\ \A k \in 0..(Width(last.instr.size) - 1) :
              BitOf(OperandAfter, k) = SumBit(TermA, TermB, TermC, k)
        /\ SrBit(sr, 1) = CarryOrBorrow
        /\ SrBit(sr, 16) = CarryOrBorrow
        /\ SrBit(sr, 4) = (OperandAfter = Zero32)
        /\ SrBit(sr, 8) = (BitOf(OperandAfter, Width(last.instr.size) - 1) = 1)

\* SUBI.B #1,D0 on D0 = 0 gave D0 = 0x000000FF with C, X, N set and Z clear
C8_Witness ==
    /\ StepOf({"Subi"})
    /\ last.instr.size = "Byte"
    /\ last.instr.ea = EA("DataRegister", 0)
    /\ last.pre.data[0] = Zero32
    /\ ImmOf("Byte") = <<0, 1>>
    /\ data[0] = <<0, 255>>
    /\ SrBit(sr, 1) /\ SrBit(sr, 16) /\ SrBit(sr, 8) /\ ~SrBit(sr, 4)

\* C9: for ADDI, SUBI, NEG and NEGX the Overflow (V) flag after the step is
\* the signed (two's-complement) overflow of the operation at the operand
\* width, not the unsigned carry/borrow.
C9_OverflowIsSigned ==
    StepOf(ArithOps) => SrBit(sr, 2) = SignedOverflow

\* The source operand of the last step, a MOVEA
MoveaSource ==
    CASE last.instr.ea.mode = "DataRegister" -> last.pre.data[last.instr.ea.reg]
      [] last.instr.ea.mode = "AddressRegister" ->
            IF last.instr.ea.reg = 7
            THEN IF SrBit(last.pre.sr, 8192) THEN last.pre.ssp ELSE last.pre.usp
            ELSE last.pre.addr[last.instr.ea.reg]
      [] last.instr.ea.mode = "Address" ->
            MemValue(last.pre.ram, last.pre.addr[last.instr.ea.reg], last.instr.size)
      [] last.instr.ea.mode = "Immediate" -> ImmOf(last.instr.size)

\* The destination address register of the last step, a MOVEA
MoveaDestination ==
    IF last.instr.reg = 7 THEN IF SrBit(sr, 8192) THEN ssp ELSE usp
    ELSE addr[last.instr.reg]

\* C10: MOVEA.W writes to the destination address register the 16-bit source
\* sign-extended to 32 bits (all 32 bits are replaced), MOVEA.L replaces all
\* 32 bits, and neither changes any bit of SR.
C10_MoveaReplacesRegister ==
    (/\ last.op = "step"
     /\ last.err = "none"
     /\ last.instr.op = "Movea"
     /\ last.instr.ea.mode \in {"DataRegister", "AddressRegister", "Address", "Immediate"}
     /\ last.instr.ea.mode = "Address" => last.instr.ea.reg < 7) =>
        /\ sr = last.pre.sr
        /\ MoveaDestination =
              IF last.instr.size = "Word"
              THEN <<IF MoveaSource[2] >= 32768 THEN 65535 ELSE 0, MoveaSource[2]>>
              ELSE MoveaSource

\* The address PEA names: An for (An), the sign-extended extension word for
\* (xxx).W
PeaAddress ==
    IF last.instr.ea.mode = "Address"
    THEN last.pre.addr[last.instr.ea.reg]
    ELSE <<IF RomWord(Index(last.pre.pc) + 2) >= 32768 THEN 65535 ELSE 0,
           RomWord(Index(last.pre.pc) + 2)>>

\* C11: a completed PEA leaves the active stack pointer 4 lower and, at the
\* new stack pointer, the big-endian longword of the effective address itself
C11_PeaPushesAddress ==
    (/\ last.op = "step"
     /\ last.err = "none"
     /\ last.instr.op = "Pea"
     /\ last.instr.ea.mode \in {"Address", "AbsoluteShort"}
     /\ last.instr.ea.reg < 7)
        => /\ ActiveSp(sr, usp, ssp)
                = Plus(ActiveSp(last.pre.sr, last.pre.usp, last.pre.ssp), -4)
           /\ MemValue(ram, ActiveSp(sr, usp, ssp), "Long") = PeaAddress

\* MOVE between data registers, (An) and (An)+, n < 7: the value moved, the
\* address registers after the source is resolved, the destination address,
\* and the address registers after the destination is resolved
MoveModes == {"DataRegister", "Address", "AddressWithPostIncrement"}
MoveStep ==
    /\ last.op = "step"
    /\ last.err = "none"
    /\ last.instr.op = "Move"
    /\ last.instr.ea.mode \in MoveModes /\ last.instr.ea.reg < 7
    /\ last.instr.dst.mode \in MoveModes /\ last.instr.dst.reg < 7
MoveValue ==
    IF last.instr.ea.mode = "DataRegister"
    THEN Trunc(last.instr.size, last.pre.data[last.instr.ea.reg])
    ELSE MemValue(last.pre.ram, last.pre.addr[last.instr.ea.reg], last.instr.size)
AddrAfterSource(r) ==
    IF last.instr.ea.mode = "AddressWithPostIncrement" /\ r = last.instr.ea.reg
    THEN Plus(last.pre.addr[r], Width(last.instr.size) \div 8)
    ELSE last.pre.addr[r]
AddrAfterMove(r) ==
    IF last.instr.dst.mode = "AddressWithPostIncrement" /\ r = last.instr.dst.reg
    THEN Plus(AddrAfterSource(r), Width(last.instr.size) \div 8)
    ELSE AddrAfterSource(r)

\* C12: MOVE reads the source at the address the registers held before the
\* instruction, sets Z and N from the value, clears V and C, keeps X, then
\* writes the value at the destination address the registers hold after the
\* source's side effect, and each side effect is applied once
C12_MoveInProgramOrder ==
    MoveStep =>
        /\ \A r \in 0..6 : addr[r] = AddrAfterMove(r)
        /\ IF last.instr.dst.mode = "DataRegister"
           THEN /\ \A k \in 0..31 :
                     BitOf(data[last.instr.dst.reg], k)
                        = IF k < Width(last.instr.size) THEN BitOf(MoveValue, k)
                          ELSE BitOf(last.pre.data[last.instr.dst.reg], k)
                /\ \A r \in 0..7 : r # last.instr.dst.reg => data[r] = last.pre.data[r]
                /\ ram = last.pre.ram
           ELSE /\ MemValue(ram, AddrAfterSource(last.instr.dst.reg), last.instr.size)
                     = MoveValue
                /\ data = last.pre.data
        /\ SrBit(sr, 4) = (MoveValue = <<0, 0>>)
        /\ SrBit(sr, 8) = (BitOf(MoveValue, Width(last.instr.size) - 1) = 1)
        /\ ~SrBit(sr, 2) /\ ~SrBit(sr, 1)
        /\ SrBit(sr, 16) = SrBit(last.pre.sr, 16)
        /\ sr \div 32 = last.pre.sr \div 32

\* MOVE.W (A0)+,(A0)+ has copied a word that is not zero
C12_Witness ==
    /\ MoveStep
    /\ last.instr.ea = [mode |-> "AddressWithPostIncrement", reg |-> 0]
    /\ last.instr.dst = [mode |-> "AddressWithPostIncrement", reg |-> 0]
    /\ MoveValue # <<0, 0>>
    /\ addr[0] = Plus(last.pre.addr[0], 4)

\* The opcode word the last step fetched
FetchedOpcode == RomWord(Index(last.pre.pc))

\* ORI/ANDI/EORI #imm,SR; MOVE SR,D0; MOVE D0,SR; RESET; STOP; RTE
PrivilegedOpcodes == {124, 636, 2684, 16576, 18112, 20080, 20082, 20083}

\* The last operation was a step of a privileged instruction in user mode
UserModePrivilegedStep ==
    /\ last.op = "step"
    /\ ~SrBit(last.pre.sr, 8192)
    /\ FetchedOpcode \in PrivilegedOpcodes

\* C13: in user mode a privileged instruction raises PrivilegeViolation and
\* leaves SR, the data and address registers, both stack pointers and memory
\* as they were
C13_PrivilegedNeedsSupervisor ==
    UserModePrivilegedStep =>
        /\ last.err = "PrivilegeViolation"
        /\ sr = last.pre.sr
        /\ data = last.pre.data
        /\ addr = last.pre.addr
        /\ usp = last.pre.usp
        /\ ssp = last.pre.ssp
        /\ ram = last.pre.ram

\* C14: a step that ends with an exception hands it to its caller and the
\* emulator keeps running
C14_ExceptionSurfacedToCaller ==
    (/\ last.op = "step"
     /\ last.err \in {"IllegalInstruction", "BusError", "PrivilegeViolation"})
        => status = "running"

\* C15: the stop loop returns a software-breakpoint stop exactly after a
\* completed step whose resulting PC is a breakpoint: never from the poll,
\* never before one step of this invocation has run, and no step follows
C15_SwBreakAfterStepOnBreakpoint ==
    /\ (last.op = "target_step" /\ last.err = "none")
          => /\ (event = "SwBreak") = (pc \in breakpoints)
             /\ last.arg.event = "none"
             /\ steps = last.arg.steps + 1
    /\ last.op = "poll" => event # "SwBreak"
    /\ event = "SwBreak" => (at = "idle" /\ obs.ran >= 1)

\* The loop was entered at PC 8 with breakpoints at 8 and 12 and stopped
\* after its second step
C15_Witness ==
    /\ last.op = "target_step"
    /\ event = "SwBreak"
    /\ breakpoints = {<<0, 8>>, <<0, 12>>}
    /\ pc = <<0, 12>>
    /\ obs.ran = 2

\* C16: the connection is peeked before the first step of an invocation and
\* again after every 1024 steps, so no more than 1024 steps run between two
\* peeks or while a byte is pending
C16_PollEvery1024Steps ==
    /\ obs.unpolled <= 1024
    /\ obs.waited <= 1024
    /\ at = "step" => obs.peeks = (obs.ran \div 1024) + 1
    /\ obs.ran > 0 => obs.peeks >= 1

\* A byte that arrived right after the first peek is surfaced by the second
\* peek, 1024 steps later
C16_Witness ==
    /\ event = "IncomingData"
    /\ obs.waited = 1024
    /\ obs.peeks = 2
    /\ obs.ran = 1024

\* The last operation was a poll whose peek reported a byte or failed
PositivePeek ==
    /\ last.op = "poll"
    /\ last.arg.tick % 1024 = 0
    /\ last.arg.conn \in {"byte", "broken"}

\* C17 as stated: after a peek that reports a byte or fails, the loop has
\* read one byte and returned IncomingData without a CPU step
C17_PeekedByteReturnsIncomingData ==
    PositivePeek =>
        /\ event = "IncomingData"
        /\ conn = "empty"
        /\ at = "idle"
        /\ CpuState = last.pre
        /\ steps = last.arg.steps
        /\ breakpoints = last.arg.breakpoints

\* C17 as amended: after such a peek the loop returns without a CPU step,
\* with IncomingData and the byte consumed when the read succeeds (always
\* when a byte was reported) and with the connection error when it fails
C17_PeekedByteEndsLoopWithoutStep ==
    PositivePeek =>
        /\ event \in {"IncomingData", "ConnectionError"}
        /\ last.arg.conn = "byte" => event = "IncomingData"
        /\ event = "IncomingData" => conn = "empty"
        /\ at = "idle"
        /\ CpuState = last.pre
        /\ steps = last.arg.steps
        /\ breakpoints = last.arg.breakpoints

\* The second peek of an invocation, after 1024 steps, found a failing
\* connection and the read that followed delivered a byte
C17_Witness ==
    /\ PositivePeek
    /\ last.arg.tick = 1024
    /\ last.arg.conn = "broken"
    /\ event = "IncomingData"

\* C19: a STOP instruction executed in supervisor mode sets the stopped flag
C19_StopSetsStoppedFlag ==
    (/\ last.op = "step"
     /\ FetchedOpcode = 20082
     /\ SrBit(last.pre.sr, 8192))
        => is_stopped

\* C20: add returns whether the address was absent and leaves it present,
\* remove returns whether it was present and leaves it absent, no other
\* address changes membership, whatever the kind
C20_BreakpointsAreASet ==
    /\ last.op = "add_sw_breakpoint"
          => /\ last.arg.ret = (last.arg.addr \notin last.arg.before)
             /\ last.arg.addr \in breakpoints
             /\ \A a \in (breakpoints \cup last.arg.before) \ {last.arg.addr} :
                    (a \in breakpoints) = (a \in last.arg.before)
    /\ last.op = "remove_sw_breakpoint"
          => /\ last.arg.ret = (last.arg.addr \in last.arg.before)
             /\ last.arg.addr \notin breakpoints
             /\ \A a \in (breakpoints \cup last.arg.before) \ {last.arg.addr} :
                    (a \in breakpoints) = (a \in last.arg.before)

\* An address was added a second time, with another kind, next to another
\* breakpoint
C20_Witness ==
    /\ last.op = "add_sw_breakpoint"
    /\ ~last.arg.ret
    /\ last.arg.kind = 2
    /\ breakpoints = {<<0, 8>>, <<0, 12>>}

\* A remove packet that directly follows an add packet for the same address
AddThenRemove ==
    /\ last.op = "remove_sw_breakpoint"
    /\ last.arg.prior.op = "add_sw_breakpoint"
    /\ last.arg.prior.addr = last.arg.addr

\* An add packet that directly follows an add packet for the same address
AddTwice ==
    /\ last.op = "add_sw_breakpoint"
    /\ last.arg.prior.op = "add_sw_breakpoint"
    /\ last.arg.prior.addr = last.arg.addr

\* C21: for every breakpoint set S and every address a, adding a and then
\* removing a yields S again, and adding a twice yields the set that adding
\* it once yields
C21_AddRemoveRestoresSet ==
    /\ AddThenRemove => breakpoints = last.arg.prior.before
    /\ AddTwice => breakpoints = last.arg.before

\* C21, amended: adding a and then removing a yields S again when a was not
\* in S, and S without a when it was; adding a twice yields the set that
\* adding it once yields
C21_AddRemoveRestoresSetWithoutAddress ==
    /\ AddThenRemove /\ last.arg.addr \notin last.arg.prior.before
          => breakpoints = last.arg.prior.before
    /\ AddThenRemove /\ last.arg.addr \in last.arg.prior.before
          => /\ last.arg.addr \notin breakpoints
             /\ \A a \in last.arg.prior.before :
                    a # last.arg.addr => a \in breakpoints
    /\ AddTwice => breakpoints = last.arg.before

\* An address was added next to another breakpoint and removed again
C21_Witness ==
    /\ AddThenRemove
    /\ last.arg.addr = <<0, 8>>
    /\ last.arg.prior.before = {<<0, 12>>}
    /\ last.arg.ret

\* Register number j of a register file in the order D0..D7, A0..A7, SR, PC
WireRegister(r, j) ==
    IF j < 8 THEN r.data[j]
    ELSE IF j < 16 THEN r.addr[j - 8]
    ELSE IF j = 16 THEN r.sr ELSE r.pc

\* Byte i of a u32, byte 0 the least significant
ByteOf(v, i) ==
    IF i < 2 THEN (v[2] \div (256 ^ i)) % 256 ELSE (v[1] \div (256 ^ (i - 2))) % 256

\* C22: the serialized form is the registers in the order D0..D7, A0..A7, SR,
\* PC, each as one little-endian group of four bytes, and deserializing the
\* serialized form of a register file yields that register file
C22_RegistersRoundTrip ==
    /\ last.op = "gdb_serialize"
          => /\ Len(packet) = 72
             /\ \A p \in 0..71 :
                    packet[p + 1] = ByteOf(WireRegister(last.arg, p \div 4), p % 4)
    /\ last.op = "gdb_deserialize" /\ last.arg.whole
          => /\ last.err = "none"
             /\ regs = last.arg.sent

\* A register file with eighteen different registers came back whole
C22_Witness ==
    /\ last.op = "gdb_deserialize"
    /\ last.arg.whole
    /\ last.arg.sent = SeedRegFile(0)
    /\ regs.data[0] = <<4660, 22136>>
    /\ regs.pc = SeedReg(0, 17)

\* The addresses start_addr + i of a memory packet of n bytes
PacketRange == {Plus(last.arg.addr, i) : i \in 0..(Len(last.arg.data) - 1)}

\* The memory map: reads succeed below 0x01000000, writes in
\* [0x00010000, 0x01000000)
Readable(x) == x[1] < 256
Writable(x) == x[1] > 0 /\ x[1] < 256

\* The byte the bus holds at a readable address: the image byte, 0 between
\* the end of the image and 0x00010000, the RAM byte
BusByteAt(ramf, x) ==
    IF x[1] = 0
    THEN IF Index(x) < Len(rom) THEN rom[Index(x) + 1] ELSE 0
    ELSE RamByte(ramf, Index(x))

\* C23: a memory read of n bytes at start_addr puts the bus byte at
\* start_addr + i into buffer position i, and a memory write stores data[i]
\* at start_addr + i, for every i below n and every start_addr
C23_MemoryPacketCoversItsRange ==
    /\ last.op = "read_addrs" /\ (\A x \in PacketRange : Readable(x))
          => /\ last.err = "none"
             /\ \A i \in 0..(Len(last.arg.data) - 1) :
                    packet[i + 1] = BusByteAt(ram, Plus(last.arg.addr, i))
    /\ last.op = "write_addrs" /\ (\A x \in PacketRange : Writable(x))
          => /\ last.err = "none"
             /\ \A i \in 0..(Len(last.arg.data) - 1) :
                    BusByteAt(ram, Plus(last.arg.addr, i)) = last.arg.data[i + 1]

\* C24: a memory packet whose range holds an address the bus rejects (a
\* write below 0x00010000, any access at or above 0x01000000) returns the
\* protocol error and never success
C24_RejectedAddressIsProtocolError ==
    /\ last.op = "read_addrs" /\ (\E x \in PacketRange : ~Readable(x))
          => last.err = "TargetError"
    /\ last.op = "write_addrs" /\ (\E x \in PacketRange : ~Writable(x))
          => last.err = "TargetError"

\* C25: read8 below 0x00010000 returns the image byte below the length of
\* the image and 0 from there on; it neither errors nor aborts
C25_RomPaddedWithZero ==
    last.op = "read" /\ last.arg.n = 1 /\ last.arg.addr[1] = 0
       => /\ last.err = "none"
          /\ status = "running"
          /\ last.arg.value = <<0, BusByteAt(ram, last.arg.addr)>>

\* A write of the last operation that reached the bus below 0x00010000: a
\* bus call there, the first byte of a memory packet there, MOVE.W D0,(xxx).L
\* there
RomWrite ==
    \/ last.op = "write" /\ last.arg.addr[1] = 0
    \/ /\ last.op = "write_addrs"
       /\ last.arg.addr[1] = 0
       /\ Index(last.arg.addr) < Len(last.arg.data)
    \/ /\ last.op = "step"
       /\ last.instr.op = "Move"
       /\ last.instr.dst.mode = "AbsoluteLong"
       /\ RomWord(Index(last.pre.pc) + 2) = 0

RomWriteRejected ==
    RomWrite => /\ last.err \in {"BusError", "TargetError"}
                /\ ram = last.pre.ram

\* C26: every write below 0x00010000 returns BusError and stores nothing,
\* and no CPU step, bus call or memory packet changes the bytes of the ROM
C26_RomIsReadOnly == [](RomWriteRejected) /\ [][rom' = rom]_vars

\* A long write to the first ROM address was rejected after RAM was written
C26_Witness ==
    /\ last.op = "write"
    /\ last.arg.addr = <<0, 0>>
    /\ last.arg.n = 4
    /\ last.err = "BusError"
    /\ ram # <<>>

\* A write16 / write32 whose bytes all lie in RAM
RamWrite ==
    /\ last.op = "write"
    /\ last.arg.n \in {2, 4}
    /\ last.arg.addr[1] > 0
    /\ last.arg.addr[1] < 256
    /\ Index(last.arg.addr) + last.arg.n <= RamEnd

\* C27: after write16 / write32 of v at an address whose bytes all lie in
\* RAM, the read of the same width returns v, read8 of a + i returns the
\* i-th most significant byte of v, and no other byte has changed
C27_BigEndianRoundTrip ==
    RamWrite
       => /\ last.err = "none"
          /\ BusCall(ram, last.arg.addr, last.arg.n) =
                 [err |-> "none", v |-> last.arg.value]
          /\ \A i \in 0..(last.arg.n - 1) :
                 read8(ram, Plus(last.arg.addr, i)) =
                    [err |-> "none", v |-> <<0, ByteOf(last.arg.value, last.arg.n - 1 - i)>>]
          /\ \A x \in DOMAIN ram \cup DOMAIN last.pre.ram :
                 x < Index(last.arg.addr) \/ x >= Index(last.arg.addr) + last.arg.n
                    => RamByte(ram, x) = RamByte(last.pre.ram, x)

\* A long was written over a byte, next to bytes written at the end of RAM
C27_Witness ==
    /\ RamWrite
    /\ last.arg.n = 4
    /\ last.arg.addr = <<1, 0>>
    /\ RamByte(last.pre.ram, 65536) = 120
    /\ RamByte(ram, 16777214) = 86

\* The words of one instruction of the image: the 8 bytes of vectors are
\* followed by two instructions of the same length
InstrWords == (Len(rom) - 8) \div 4

\* C28: after every successfully executed instruction the PC has advanced by
\* 2 for each word of the instruction (the opcode, 1 word for a byte or word
\* immediate, a displacement or an absolute-short address, 2 words for a long
\* immediate or an absolute-long address), so an even PC stays even
C28_PcAdvancesByWordsConsumed ==
    last.op = "step" /\ last.err = "none"
       => /\ pc = Plus(last.pre.pc, 2 * InstrWords)
          /\ last.pre.pc[2] % 2 = 0 => pc[2] % 2 = 0

\* ORI #imm,CCR at PC = 8 left PC = 12, and then again at 12 left 16
C28_Witness ==
    /\ last.op = "step"
    /\ last.err = "none"
    /\ last.instr.op = "OriToCcr"
    /\ last.pre.pc = <<0, 12>>
    /\ pc = <<0, 16>>

\* The last step completed an instruction with one <ea> operand in the mode
\* (An)+ or -(An)
SingleEaOps ==
    {"Ori", "Andi", "Subi", "Addi", "Eori", "Cmpi", "Negx", "Clr", "Neg", "Not", "Tas"}
AutoStep ==
    /\ last.op = "step"
    /\ last.err = "none"
    /\ last.instr.op \in SingleEaOps
    /\ last.instr.ea.mode \in {"AddressWithPostIncrement", "AddressWithPreDecrement"}

\* The operand size s in bytes, and the amount An moves by: s, but 2 for a
\* byte through A7
OperandBytes == Width(last.instr.size) \div 8
AutoAmount == IF OperandBytes = 1 /\ last.instr.ea.reg = 7 THEN 2 ELSE OperandBytes

\* An before and after the step; A7 is the stack pointer SR selected
AutoRegBefore ==
    IF last.instr.ea.reg = 7 THEN ActiveSp(last.pre.sr, last.pre.usp, last.pre.ssp)
    ELSE last.pre.addr[last.instr.ea.reg]
AutoRegAfter ==
    IF last.instr.ea.reg = 7 THEN ActiveSp(last.pre.sr, usp, ssp)
    ELSE addr[last.instr.ea.reg]

\* The address the operand is at: the old An for (An)+, the new An for -(An)
AutoOperandAddr ==
    IF last.instr.ea.mode = "AddressWithPostIncrement" THEN AutoRegBefore
    ELSE Plus(AutoRegBefore, 0 - AutoAmount)

\* The RAM bytes the last step stored or changed
BytesWritten ==
    {x \in DOMAIN ram : x \notin DOMAIN last.pre.ram \/ ram[x] # last.pre.ram[x]}

\* C29: an instruction of operand size s whose <ea> is (An)+ or -(An) moves An
\* by exactly s (by 2 for a byte through A7), up for (An)+ and down for
\* -(An), and its operand is at the old An for (An)+ and at the new An for
\* -(An); this includes the word and long sizes of NEG and NEGX
C29_AutoModesStepByOperandSize ==
    AutoStep
       => /\ AutoRegAfter =
                IF last.instr.ea.mode = "AddressWithPostIncrement"
                THEN Plus(AutoRegBefore, AutoAmount)
                ELSE Plus(AutoRegBefore, 0 - AutoAmount)
          /\ \A x \in BytesWritten :
                 /\ x >= Index(AutoOperandAddr)
                 /\ x < Index(AutoOperandAddr) + OperandBytes
          /\ last.instr.op # "Cmpi" => Index(AutoOperandAddr) \in DOMAIN ram

\* The last step ran an instruction whose <ea> goes through register 7 in a
\* memory mode, or whose destination is A7 (MOVEA), or which pushes (PEA)
ThroughA7 ==
    /\ last.op = "step"
    /\ \/ /\ last.instr.op \in SingleEaOps
          /\ last.instr.ea.reg = 7
          /\ last.instr.ea.mode \in {"Address", "AddressWithPostIncrement",
                                     "AddressWithPreDecrement", "AddressWithDisplacement"}
       \/ last.instr.op = "Movea" /\ last.instr.reg = 7
       \/ last.instr.op = "Pea" /\ last.instr.ea.mode = "Address"

\* The stack pointer SR selected before the step, and its value after it
ActiveBefore == ActiveSp(last.pre.sr, last.pre.usp, last.pre.ssp)
ActiveAfter == ActiveSp(last.pre.sr, usp, ssp)

\* The address the step must access through the active stack pointer: its
\* old value, its new value for a push or -(A7), its old value plus d
A7OperandAddr ==
    CASE last.instr.op = "Pea" -> ActiveAfter
      [] last.instr.ea.mode = "Address" -> ActiveBefore
      [] last.instr.ea.mode = "AddressWithPostIncrement" -> ActiveBefore
      [] last.instr.ea.mode = "AddressWithPreDecrement" -> ActiveAfter
      [] last.instr.ea.mode = "AddressWithDisplacement" ->
            Plus(ActiveBefore, RomWord(Index(last.pre.pc) + 2 * InstrWords - 2))

\* C30: every use of register 7 goes through the active stack pointer: for
\* (A7), (A7)+, -(A7), d(A7), MOVEA to A7 and pushes the resolution uses SSP
\* when Supervisor is set and USP otherwise, completes without failure, and
\* never touches the other stack pointer
C30_A7IsTheActiveStackPointer ==
    ThroughA7
       => /\ last.err # "Panic"
          /\ IF SrBit(last.pre.sr, 8192) THEN usp = last.pre.usp ELSE ssp = last.pre.ssp
          /\ last.err = "none" /\ last.instr.op = "Movea" /\ last.instr.size = "Long"
                => ActiveAfter = MoveaSource
          /\ last.err = "none" /\ last.instr.op # "Movea"
                => /\ \A x \in BytesWritten :
                         /\ x >= Index(A7OperandAddr)
                         /\ x < Index(A7OperandAddr) + 4
                   /\ last.instr.op = "Pea" \/ last.instr.ea.mode = "AddressWithPreDecrement"
                         => ActiveAfter # ActiveBefore
                   /\ last.instr.ea.mode = "AddressWithPostIncrement"
                         => ActiveAfter # ActiveBefore

\* Bit k of dst - imm for the CMPI of the last step, as dst + ~imm + 1, and
\* whether that subtraction borrows at the operand width
CmpiDiffBit(k) == SumBit(OperandBefore, Not32(ImmOf(last.instr.size)), 1, k)
CmpiBorrow ==
    CarryInto(OperandBefore, Not32(ImmOf(last.instr.size)), 1, Width(last.instr.size)) = 0

\* C31: CMPI computes dst - imm at the operand width without writing it back
\* (the destination operand is unchanged) and sets C to the unsigned borrow
\* of the subtraction, Z to (difference = 0) and N to the most significant
\* bit of the difference
C31_CmpiSetsCarryToBorrow ==
    StepOf({"Cmpi"}) =>
        /\ OperandAfter = OperandBefore
        /\ SrBit(sr, 1) = CmpiBorrow
        /\ SrBit(sr, 4) = (\A k \in 0..(Width(last.instr.size) - 1) : CmpiDiffBit(k) = 0)
        /\ SrBit(sr, 8) = (CmpiDiffBit(Width(last.instr.size) - 1) = 1)

\* The last step completed an instruction that writes a byte or a word
\* result to a data register; which register; how many low bits it may change
NarrowWriteOps ==
    {"Move", "Clr", "Not", "Ori", "Andi", "Eori", "Addi", "Subi", "Neg", "Negx", "Ext", "Tas"}
NarrowWrite ==
    /\ last.op = "step"
    /\ last.err = "none"
    /\ last.instr.op \in NarrowWriteOps
    /\ CASE last.instr.op = "Move" -> /\ last.instr.dst.mode = "DataRegister"
                                      /\ last.instr.size \in {"Byte", "Word"}
         [] last.instr.op = "Ext" -> last.instr.size = "Word"
         [] last.instr.op = "Tas" -> last.instr.ea.mode = "DataRegister"
         [] OTHER -> /\ last.instr.ea.mode = "DataRegister"
                     /\ last.instr.size \in {"Byte", "Word"}
NarrowRegister ==
    CASE last.instr.op = "Move" -> last.instr.dst.reg
      [] last.instr.op = "Ext" -> last.instr.reg
      [] OTHER -> last.instr.ea.reg
NarrowBits ==
    IF last.instr.op = "Tas" \/ (last.instr.op # "Ext" /\ last.instr.size = "Byte")
    THEN 8 ELSE 16

\* C32: an instruction that writes a byte or a word result to a data register
\* (MOVE, CLR, NOT, ORI/ANDI/EORI, ADDI/SUBI, NEG/NEGX, EXT.W, TAS) changes
\* only the low 8 or low 16 bits of it; the higher bits stay as they were
C32_NarrowWriteKeepsHighBits ==
    NarrowWrite =>
        \A k \in NarrowBits..31 :
            BitOf(data[NarrowRegister], k) = BitOf(last.pre.data[NarrowRegister], k)

\* CLR.W D0 on D0 = 0xFFFFFFFF gave 0xFFFF0000
C32_Witness ==
    /\ NarrowWrite
    /\ last.instr.op = "Clr"
    /\ last.instr.size = "Word"
    /\ last.instr.ea = EA("DataRegister", 0)
    /\ last.pre.data[0] = <<65535, 65535>>
    /\ data[0] = <<65535, 0>>

\* The last step completed a bit instruction on a data register or on the
\* byte an address register An, n < 7, points to
BitOps == {"Btst", "Bchg", "Bclr", "Bset"}
BitStep == StepOf(BitOps)

\* The bit number given: the data register of the dynamic form, the
\* immediate word of the static form; taken modulo 32 or 8
BitGiven ==
    IF last.instr.aux = 1 THEN last.pre.data[last.instr.reg][2]
    ELSE RomWord(Index(last.pre.pc) + 2)
BitSelected ==
    BitGiven % (IF last.instr.ea.mode = "DataRegister" THEN 32 ELSE 8)

\* The operand of a bit instruction in a CPU state: the whole data register,
\* or the byte in memory
BitOperand(d, ramf) ==
    IF last.instr.ea.mode = "DataRegister" THEN d[last.instr.ea.reg]
    ELSE MemValue(ramf, last.pre.addr[last.instr.ea.reg], "Byte")

\* The bit k of the operand that the instruction must leave
BitExpected(k) ==
    IF k # BitSelected \/ last.instr.op = "Btst"
    THEN BitOf(BitOperand(last.pre.data, last.pre.ram), k)
    ELSE CASE last.instr.op = "Bchg" ->
                 1 - BitOf(BitOperand(last.pre.data, last.pre.ram), k)
           [] last.instr.op = "Bclr" -> 0
           [] last.instr.op = "Bset" -> 1

\* C33: for BTST/BCHG/BCLR/BSET the bit number is the register value or the
\* immediate word modulo 32 for a data register operand and modulo 8
\* otherwise; Z is (selected bit = 0) of the operand before the step; BTST
\* leaves the operand unchanged, BCHG toggles, BCLR clears and BSET sets
\* only that bit; a second BCHG with the same bit number ends with the
\* complement of the first Z
C33_BitInstructions ==
    BitStep =>
        /\ SrBit(sr, 4) = (BitOf(BitOperand(last.pre.data, last.pre.ram), BitSelected) = 0)
        /\ \A k \in 0..31 : BitOf(BitOperand(data, ram), k) = BitExpected(k)
        /\ last.instr.op = "Bchg" /\ last.instr.aux = 0 /\ steps = 2
              => SrBit(sr, 4) # SrBit(last.pre.sr, 4)

\* The second BCHG #1,D0 on D0 = 0: D0 was 2 with Z set, and is 0 with Z clear
C33_Witness ==
    /\ BitStep
    /\ last.instr.op = "Bchg"
    /\ last.instr.aux = 0
    /\ BitGiven = 1
    /\ last.pre.data[0] = <<0, 2>>
    /\ SrBit(last.pre.sr, 4)
    /\ data[0] = Zero32
    /\ ~SrBit(sr, 4)

\* The last step ran BTST Dn,(xxx).W; the absolute-short extension word
\* follows the opcode
AbsShortStep ==
    /\ last.op = "step"
    /\ last.instr.op = "Btst"
    /\ last.instr.aux = 1
    /\ last.instr.ea.mode = "AbsoluteShort"
AbsShortWord == RomWord(Index(last.pre.pc) + 2)

\* C34: an absolute-short operand lies at the extension word sign-extended
\* to 32 bits: a word w >= 0x8000 addresses 0xFFFF0000 + w, which no device
\* maps, so the access is a bus error and never a read below 0x00010000; a
\* word w < 0x8000 addresses w, a byte of the ROM region, which the bit test
\* reads when the image holds it
C34_AbsoluteShortSignExtends ==
    AbsShortStep =>
        IF AbsShortWord >= 32768
        THEN last.err = "BusError"
        ELSE IF AbsShortWord < Len(rom)
        THEN /\ last.err = "none"
             /\ SrBit(sr, 4) = (BitOf(<<0, rom[AbsShortWord + 1]>>,
                                      last.pre.data[last.instr.reg][2] % 8) = 0)
        ELSE last.err # "BusError"

\* The last step ran a TST
TstStep == last.op = "step" /\ last.instr.op = "Tst"

\* C35: a TST completes normally; Z and N follow the operand at the
\* instruction's width, V and C are clear, and X, the data registers and
\* memory are as before
C35_TstSetsFlags ==
    TstStep =>
        /\ last.err = "none"
        /\ status = "running"
        /\ data = last.pre.data
        /\ ram = last.pre.ram
        /\ SrBit(sr, 16) = SrBit(last.pre.sr, 16)
        /\ ~SrBit(sr, 2)
        /\ ~SrBit(sr, 1)
        /\ last.instr.ea.mode = "DataRegister" =>
              /\ SrBit(sr, 4)
                    = (Trunc(last.instr.size, data[last.instr.ea.reg]) = Zero32)
              /\ SrBit(sr, 8)
                    = (BitOf(data[last.instr.ea.reg], Width(last.instr.size) - 1) = 1)

\* The instructions decode_execute has an arm for, and the addressing modes
\* compute_ea leaves unresolved
ImplementedOps ==
    {"OriToCcr", "OriToSr", "Ori", "AndiToCcr", "AndiToSr", "Andi", "Subi",
     "Addi", "EoriToCcr", "EoriToSr", "Eori", "Cmpi", "Btst", "Bchg", "Bclr",
     "Bset", "Movea", "Move", "MoveFromSr", "MoveToCcr", "MoveToSr", "Negx",
     "Clr", "Neg", "Not", "Ext", "Swap", "Pea", "Illegal", "Tas", "Moveq"}
IndexModes == {"AddressWithIndex", "PcWithIndex"}

\* The last step met an instruction without an arm, or an implemented
\* instruction in supervisor mode with an operand in an indexed mode (a
\* destination, once the source was read)
UnimplementedStep ==
    /\ last.op = "step"
    /\ last.instr.op # "None"
    /\ \/ last.instr.op \notin ImplementedOps
       \/ /\ last.instr.op \in ImplementedOps \ {"Illegal"}
          /\ SrBit(last.pre.sr, Supervisor)
          /\ \/ last.instr.ea.mode \in IndexModes
             \/ last.instr.dst.mode \in IndexModes /\ last.err # "BusError"

\* C36: a step that meets an unimplemented instruction or addressing mode
\* ends in an outcome of its own that its caller receives, so the emulator
\* keeps running; it does not complete, and the data and address registers,
\* both stack pointers, SR and memory are as before the step
C36_UnimplementedIsReported ==
    UnimplementedStep =>
        /\ last.err \notin {"none", "Panic", "IllegalInstruction", "BusError",
                            "PrivilegeViolation"}
        /\ status = "running"
        /\ data = last.pre.data
        /\ addr = last.pre.addr
        /\ usp = last.pre.usp
        /\ ssp = last.pre.ssp
        /\ sr = last.pre.sr
        /\ ram = last.pre.ram

\* The last operation was a bus call: a read or a write of n bytes at addr
BusAccess == last.op \in {"read", "write"}

\* C37: every bus read or write, of any width at any address, returns a
\* value (or unit) or BusError and never aborts, also when a word or a long
\* begins in the last bytes of the ROM or RAM region; at an address of
\* 0x01000000 or above it returns BusError
C37_BusAccessNeverAborts ==
    BusAccess =>
        /\ last.err \in {"none", "BusError"}
        /\ status = "running"
        /\ last.arg.addr[1] >= 256 => last.err = "BusError"

\* The last step completed ORI, ANDI or EORI to CCR, or MOVE Dn,CCR
CcrOps == {"OriToCcr", "AndiToCcr", "EoriToCcr", "MoveToCcr"}
CcrStep ==
    /\ last.op = "step"
    /\ last.err = "none"
    /\ last.instr.op \in CcrOps
    /\ last.instr.op = "MoveToCcr" => last.instr.ea.mode = "DataRegister"

\* The operand of a CCR form: the immediate word, or the data register
CcrOperand ==
    IF last.instr.op = "MoveToCcr" THEN last.pre.data[last.instr.ea.reg]
    ELSE <<0, RomWord(Index(last.pre.pc) + 2)>>

\* Bit k of the old CCR combined with bit k of the operand by the operator
CcrCombined(k) ==
    LET old == BitOf(<<0, last.pre.sr>>, k)
        new == BitOf(CcrOperand, k)
    IN  CASE last.instr.op = "OriToCcr" -> IF old = 1 \/ new = 1 THEN 1 ELSE 0
          [] last.instr.op = "AndiToCcr" -> IF old = 1 /\ new = 1 THEN 1 ELSE 0
          [] last.instr.op = "EoriToCcr" -> IF old # new THEN 1 ELSE 0
          [] last.instr.op = "MoveToCcr" -> new

\* Bits 8..15 of SR are as before the step
SrHighKept == \A k \in 8..15 : BitOf(<<0, sr>>, k) = BitOf(<<0, last.pre.sr>>, k)

\* C38 as stated: a CCR form keeps bits 8..15 of SR, and every bit of the
\* new low byte is the old CCR bit combined with the operand's bit
C38_CcrFormsCombineLowByte ==
    CcrStep =>
        /\ SrHighKept
        /\ \A k \in 0..7 : BitOf(<<0, sr>>, k) = CcrCombined(k)

\* C38: a CCR form keeps bits 8..15 of SR; bits 0..4 (C, V, Z, N, X) of the
\* new SR are the old CCR bits combined with the operand's bits, and bits
\* 5..7, which SR does not have, stay clear
C38_CcrFormsCombineFlags ==
    CcrStep =>
        /\ SrHighKept
        /\ \A k \in 0..4 : BitOf(<<0, sr>>, k) = CcrCombined(k)
        /\ \A k \in 5..7 : BitOf(<<0, sr>>, k) = 0

\* ORI #$07,CCR on SR = 0x2700 left SR = 0x2707
C38_Witness ==
    /\ CcrStep
    /\ last.instr.op = "OriToCcr"
    /\ CcrOperand = <<0, 7>>
    /\ last.pre.sr = 9984
    /\ sr = 9991

\* The debugger read the registers after write_registers(last.arg), and the
\* SR it wrote has no bit outside 0xA71F
LegalSr(v) == \A k \in {5, 6, 7, 11, 12, 14} : BitOf(v, k) = 0
WriteThenRead ==
    /\ last.op = "write_registers"
    /\ regs # NoRegs
    /\ LegalSr(last.arg.sr)

\* C39: read_registers after write_registers(r), r.SR legal, returns r: all
\* of D0..D7, A0..A7, SR and PC, also when r.SR changes the Supervisor bit
C39_WriteThenReadIsIdentity ==
    WriteThenRead => regs = last.arg

\* The operand accesses of the arm that executes the table entry: the
\* <<size, mode>> pairs it reads with read_ea_* and writes with write_ea_*
\* (the bit instructions use a data register operand directly as a long)
BitEaSize == IF entry.ea.mode = "DataRegister" THEN "Long" ELSE "Byte"
EntryReads ==
    CASE entry.op \in {"Ori", "Andi", "Eori", "Subi", "Addi", "Cmpi", "Movea",
                       "Move", "Negx", "Neg", "Not"} -> {<<entry.size, entry.ea.mode>>}
      [] entry.op \in BitOps -> {<<BitEaSize, entry.ea.mode>>}
      [] entry.op \in {"MoveToCcr", "Tas"} -> {<<"Byte", entry.ea.mode>>}
      [] entry.op = "MoveToSr" -> {<<"Word", entry.ea.mode>>}
      [] entry.op = "Pea" -> {<<"Long", entry.ea.mode>>}
      [] OTHER -> {}
EntryWrites ==
    CASE entry.op \in {"Ori", "Andi", "Eori", "Subi", "Addi", "Negx", "Clr",
                       "Neg", "Not"} -> {<<entry.size, entry.ea.mode>>}
      [] entry.op \in {"Bchg", "Bclr", "Bset"} -> {<<BitEaSize, entry.ea.mode>>}
      [] entry.op = "Move" -> {<<entry.size, entry.dst.mode>>}
      [] entry.op = "MoveFromSr" -> {<<"Word", entry.ea.mode>>}
      [] entry.op = "Tas" -> {<<"Byte", entry.ea.mode>>}
      [] OTHER -> {}

\* The accesses that end in a logic-error arm: an address register at byte
\* or word width, an Immediate destination
NarrowAddressRegister(a) == a[2] = "AddressRegister" /\ a[1] # "Long"

\* C40: the table entry of every opcode that decodes to an implemented
\* instruction reads only operands that are readable at its width and
\* writes only writable ones: never an address register at byte or word
\* width (so MOVEA.W An,Am has no entry, or executes), never an Immediate
\* destination
C40_DecodedOperandsAreAccessible ==
    (entry # NoEntry /\ entry.op \in ImplementedOps) =>
        /\ \A a \in EntryReads : ~NarrowAddressRegister(a)
        /\ \A a \in EntryWrites : ~NarrowAddressRegister(a) /\ a[2] # "Immediate"

====
